---- MODULE Spec2Model ----
(***************************************************************************)
(* Model of the email sync engine of mailsuite-backend.                    *)
(*                                                                         *)
(* The state is the store (mailboxes, emails, email_threads,               *)
(* email_bounces, email_bounce_events), the IMAP server's INBOX of each    *)
(* mailbox, and for each cycle trigger (the cron callback of scheduler.js  *)
(* and the POST /cron/sync-emails route) the position of its run through   *)
(* EnhancedEmailProcessor.processMailbox / processMessage / processBounce. *)
(* One action is one stretch of code between two awaits on the store or    *)
(* on the IMAP connection.                                                 *)
(***************************************************************************)
EXTENDS Integers, Sequences, FiniteSets, TLC

\* ------------------------------------------------------------------ bounds
\* UIDs the IMAP server assigns are 1..MaxUid.
MaxUid == 2
\* EMAIL_BATCH_SIZE of the run (imap-client.js:55; the default there is 100).
BatchSize == 2
\* Number of cycle triggers (cron ticks, cron requests) of a run.
MaxTicks == 2
\* Messages per INBOX in the runs over two mailboxes and on parsed bounces.
TickMaxUid == 1
\* Addresses the patterns of extractRecipientEmail match in one message.
MaxMatches == 2
\* Days the clock runs in the runs on conversations.
MaxDays == 10
\* Length of the subjects normalizeSubject is called with, in tokens.
MaxSubjectLen == 4

\* ------------------------------------------------------------- value sets
\* The two entry points that start sync cycles with the enhanced processor.
Workers == {"scheduler", "cron"}

\* Ids of the rows of the mailboxes table.
MailboxIds == {1}

NoError == "null"
ConnectError == "IMAP connection failed"
FetchError == "fetch failed"

NoRecipient == "none"

\* A property a JavaScript object does not have reads as undefined; a message
\* without a Message-ID or In-Reply-To header has none either.
Undefined == 0

\* A timestamp column that is NULL.
Never == -1

\* The window of the subject lookup of findOrCreateThread, in days.
SevenDays == 7

\* The messages that may arrive: whether simpleParser accepts the source,
\* and what the classifier, the bounce parser and normalizeSubject make of
\* the parsed message.
MessageTemplates ==
  { [parses |-> TRUE, category |-> "HUMAN", subject |-> "project plan",
     recipient |-> NoRecipient, message_id |-> Undefined,
     in_reply_to |-> Undefined, date |-> 0],
    [parses |-> TRUE, category |-> "BOUNCE", subject |-> "undelivered mail",
     recipient |-> "alice@example.com", message_id |-> Undefined,
     in_reply_to |-> Undefined, date |-> 0],
    [parses |-> FALSE, category |-> "UNKNOWN", subject |-> "",
     recipient |-> NoRecipient, message_id |-> Undefined,
     in_reply_to |-> Undefined, date |-> 0] }

\* Normalized subjects of more than 5 characters (thread-builder: line 60).
LongSubjects == {"project plan", "undelivered mail", "lunch menu"}

\* ------------------------------------------------------------------ state
VARIABLES
  mailboxes,  \* mailboxes table: id -> [status, last_error, last_synced_uid]
  inbox,      \* IMAP server: mailbox id -> sequence of messages, index = UID
  sinceUid,   \* mailbox id -> least UID still inside the SINCE window
  emails,     \* emails table, a sequence of rows (row id = index)
  threads,    \* email_threads table
  bounces,    \* email_bounces table
  events,     \* email_bounce_events table
  pc,         \* worker -> position in the code
  todo,       \* worker -> mailboxes of the tick not yet finished (head = current)
  loc,        \* worker -> locals of processMailbox / processMessage
  failed,     \* worker -> UIDs whose processMessage threw in the current cycle
  ticks,      \* number of triggers so far
  now,        \* the clock, in days
  arg,        \* argument of the call of a pure function under study
  ret,        \* what that call returned
  mode,       \* PROCESSOR_MODE of the scheduler
  attempted,  \* mailbox id -> UIDs the enhanced processMessage was called with
  api         \* the API request in flight and the number of requests so far

vars == <<mailboxes, inbox, sinceUid, emails, threads, bounces, events,
          pc, todo, loc, failed, ticks, now, arg, ret, mode, attempted, api>>

store == <<emails, threads, bounces, events>>

\* What no step of a sync cycle writes, but for the record of attempts.
side == <<mode, api>>

\* What a sync cycle neither reads for writing nor writes.
aux == <<now, arg, ret, attempted, side>>

\* ---------------------------------------------------------------- helpers
Range(s) == { s[i] : i \in 1..Len(s) }

\* The elements of a set of integers in ascending order.
RECURSIVE Ascending(_)
Ascending(S) ==
  IF S = {} THEN <<>>
  ELSE LET lo == CHOOSE x \in S : \A y \in S : x <= y
       IN <<lo>> \o Ascending(S \ {lo})

\* A loop that pushes every message.
NoLimit(s, n) == s

FirstN(s, n) == IF Len(s) <= n THEN s ELSE SubSeq(s, 1, n)

\* The sequences of at most n elements of S.
SeqsUpTo(S, n) == UNION { [1..k -> S] : k \in 0..n }

\* The greatest element of a non-empty set of integers.
Greatest(S) == CHOOSE x \in S : \A y \in S : y <= x

\* Reading property k of a JavaScript object.
Get(obj, k) == IF k \in DOMAIN obj THEN obj[k] ELSE Undefined

\* The ImapClient of a call of processMailbox: none was created ("let
\* imapClient = null"), its client is an ImapFlow with the error and close
\* listeners attached, or disconnect() has gone through: listeners removed,
\* logout attempted, this.client = null.
NoClient == "no ImapClient"
ClientOpen == "ImapFlow with listeners"
ClientClosed == "logged out, client null"

InitLoc == [last_synced_uid |-> 0, connected |-> FALSE, batch |-> <<>>,
            idx |-> 0, maxUid |-> 0, threadId |-> 0, existing |-> 0,
            existingCount |-> 0, bounceId |-> 0, error |-> NoError,
            client |-> NoClient]

\* ------------------------------------------------------------------- Init
\* No API request is in flight and none was made.
NoRequest == [route |-> "none", step |-> 0, id |-> 0, is_read |-> FALSE,
              thread_id |-> 0, requests |-> 0, status |-> 0]

\* The mailboxes ids as POST /mailboxes creates them (ACTIVE, last_synced_uid
\* 0, never synced), an empty store and no trigger running; the scheduler
\* runs in processorMode.
InitStoreMode(ids, processorMode) ==
  /\ mode = processorMode
  /\ attempted = [m \in ids |-> {}]
  /\ api = NoRequest
  /\ mailboxes = [m \in ids |-> [status |-> "ACTIVE", last_error |-> NoError,
                                 last_synced_uid |-> 0,
                                 last_synced_at |-> Never]]
  /\ sinceUid = [m \in ids |-> 1]
  /\ emails = <<>>
  /\ threads = <<>>
  /\ bounces = <<>>
  /\ events = <<>>
  /\ pc = [w \in Workers |-> "idle"]
  /\ todo = [w \in Workers |-> <<>>]
  /\ loc = [w \in Workers |-> InitLoc]
  /\ failed = [w \in Workers |-> {}]
  /\ ticks = 0
  /\ now = 0

\* "process.env.PROCESSOR_MODE || 'enhanced'".
InitStore(ids) == InitStoreMode(ids, "enhanced")

\* No call of a pure function is under study.
NoCall == arg = <<>> /\ ret = <<>>

\* The same with empty INBOXes.
InitWith(ids) ==
  /\ inbox = [m \in ids |-> <<>>]
  /\ InitStore(ids)
  /\ NoCall

\* One mailbox.
Init == InitWith(MailboxIds)


\* ------------------------------------------------------------ environment
\* A new message, one of templates, is delivered to the INBOX, which holds
\* fewer than max messages; the server gives it the next UID.
Deliver(m, templates, max) ==
  /\ Len(inbox[m]) < max
  /\ \E t \in templates :
       inbox' = [inbox EXCEPT ![m] = Append(@, [t EXCEPT !.date = now])]
  /\ UNCHANGED <<mailboxes, sinceUid, store, pc, todo, loc, failed, ticks, aux>>

Arrive(m) == Deliver(m, MessageTemplates, MaxUid)

\* Time passes: the oldest message still inside the SINCE window leaves it.
Age(m) ==
  /\ sinceUid[m] <= Len(inbox[m])
  /\ sinceUid' = [sinceUid EXCEPT ![m] = @ + 1]
  /\ UNCHANGED <<mailboxes, inbox, store, pc, todo, loc, failed, ticks, aux>>

\* ------------------------------------------------------- the store's rules
\* A dedup lookup that never finds the row.
DedupLookupMisses(m, u) == FALSE

\* The dedup lookup of processMessage: an Email row with this (mailbox_id, uid).
EmailExists(m, u) ==
  \E i \in 1..Len(emails) : emails[i].mailbox_id = m /\ emails[i].uid = u

\* CONSTRAINT emails_mailbox_uid_unique UNIQUE (mailbox_id, uid).
UniqueViolation(m, u) ==
  \E i \in 1..Len(emails) : emails[i].mailbox_id = m /\ emails[i].uid = u

\* CONSTRAINT emails_mailbox_message_id_unique UNIQUE (mailbox_id, message_id).
MessageIdViolation(m, mid) ==
  \E i \in 1..Len(emails) : emails[i].mailbox_id = m /\ emails[i].message_id = mid

\* An emails table without unique constraints.
NoUniqueConstraint(m, u, mid) == FALSE

\* The insert of an Email row is rejected when either constraint is violated.
InsertRejected(m, u, mid) == UniqueViolation(m, u) \/ MessageIdViolation(m, mid)

\* ------------------------------------------------------------- the fetcher
\* The UIDs the search criteria of fetchNewMessages select.  For lastUid > 0
\* the criteria are uid "lastUid+1:*" and since; "*" is the highest UID of
\* the INBOX, and whether a server answers lastUid+1:* with that message
\* when lastUid+1 is above it differs between servers: star says whether
\* this one does.
\* A search from lastUid on, the checkpoint included.
SearchFromLastUid(m, lastUid, star) ==
  LET n == Len(inbox[m])
  IN { u \in 1..n : u >= lastUid /\ u >= sinceUid[m] }

SearchUids(m, lastUid, star) ==
  LET n == Len(inbox[m])
      byUid == IF lastUid > 0
               THEN { u \in 1..n : u >= lastUid + 1 \/ (star /\ u = n) }
               ELSE 1..n
  IN { u \in byUid : u >= sinceUid[m] }

\* The loop of fetchNewMessages: messages in ascending UID order, the ones
\* simpleParser rejects are skipped, at most batchSize are pushed.
FetchNewMessages(m, lastUid, star) ==
  FirstN(Ascending({ u \in SearchUids(m, lastUid, star) : inbox[m][u].parses }),
         BatchSize)

\* The object fetchNewMessages pushes for the message with UID u: it has the
\* properties uid, messageId, subject and receivedDate (from, to, body and
\* headers play no part here) and no others.
ParsedMessage(msg, u) ==
  [uid |-> u, messageId |-> msg.message_id, subject |-> msg.subject,
   receivedDate |-> msg.date]

\* --------------------------------------------------------- the coordinator
\* The SELECT of the tick: ids of the mailboxes with status ACTIVE.
ActiveMailboxes ==
  Ascending({ m \in DOMAIN mailboxes : mailboxes[m].status = "ACTIVE" })

\* The call for the next mailbox of the tick's list, or the end of the tick.
NextMailbox(w) ==
  /\ todo' = [todo EXCEPT ![w] = Tail(@)]
  /\ pc' = [pc EXCEPT ![w] = IF Len(todo[w]) > 1 THEN "load" ELSE "idle"]

\* processMailbox of the enhanced processor returns and leaves its
\* ImapClient as client; the tick's loop goes on with the next mailbox or,
\* in mode "both", calls the legacy processor for the same mailbox.
Return(w, client) ==
  /\ IF mode = "both"
     THEN pc' = [pc EXCEPT ![w] = "legacyLoad"] /\ UNCHANGED todo
     ELSE NextMailbox(w)
  /\ loc' = [loc EXCEPT ![w] = [InitLoc EXCEPT !.client = client]]
  /\ failed' = [failed EXCEPT ![w] = {}]

\* A disconnect that logs out only of a connection that was established.
DisconnectIfConnected(l) == IF l.connected THEN ClientClosed ELSE l.client

\* "if (imapClient) await imapClient.disconnect()": disconnect() acts when
\* this.client is set, which connect() does before it awaits the connection;
\* an error of logout() is caught and this.client is cleared in any case.
Disconnect(l) == IF l.client = ClientOpen THEN ClientClosed ELSE l.client

\* A return of processMailbox that ends the loop of the tick.
FinishEndsTick(w) ==
  /\ todo' = [todo EXCEPT ![w] = <<>>]
  /\ pc' = [pc EXCEPT ![w] = "idle"]
  /\ loc' = [loc EXCEPT ![w] = InitLoc]
  /\ failed' = [failed EXCEPT ![w] = {}]

\* The finally block of processMailbox, and its return.
Finish(w) == Return(w, Disconnect(loc[w]))

\* A cycle trigger: the cron callback or the cron route selects the ACTIVE
\* mailboxes.  Nothing keeps a trigger from firing while another runs.
Tick(w) ==
  /\ pc[w] = "idle"
  /\ ticks < MaxTicks
  /\ ticks' = ticks + 1
  /\ todo' = [todo EXCEPT ![w] = ActiveMailboxes]
  /\ pc' = [pc EXCEPT ![w] = IF ActiveMailboxes = <<>> THEN "idle" ELSE "load"]
  /\ UNCHANGED <<mailboxes, inbox, sinceUid, store, loc, failed, aux>>

\* A select that ignores the status.
SelectAnyStatus(m) == m \in DOMAIN mailboxes

\* ".eq('id', mailboxId).eq('status', 'ACTIVE').single()" returns a row.
SelectActive(m) == m \in DOMAIN mailboxes /\ mailboxes[m].status = "ACTIVE"

\* processMailbox step 1: load the mailbox where status = ACTIVE.  With the
\* row, steps 2 and 3 create the ImapClient and connect() creates its
\* ImapFlow and attaches the listeners before it awaits the connection.
LoadMailbox(w) ==
  /\ pc[w] = "load"
  /\ LET m == Head(todo[w]) IN
       IF SelectActive(m)
       THEN /\ loc' = [loc EXCEPT ![w].last_synced_uid = mailboxes[m].last_synced_uid,
                                  ![w].client = ClientOpen]
            /\ pc' = [pc EXCEPT ![w] = "connect"]
            /\ UNCHANGED <<todo, failed>>
       ELSE Return(w, NoClient)
  /\ UNCHANGED <<mailboxes, inbox, sinceUid, store, ticks, aux>>

\* A catch block that also resets the checkpoint.
ErrorUpdateResetsCheckpoint(row, msg) ==
  [row EXCEPT !.status = "ERROR", !.last_error = msg, !.last_synced_uid = 0]

\* The row the catch block of processMailbox writes.
ErrorUpdate(row, msg) == [row EXCEPT !.status = "ERROR", !.last_error = msg]

\* connect() or fetchNewMessages() threw: control is in the catch block of
\* processMailbox, about to await the update of the mailbox row.
Throw(w, msg) ==
  /\ loc' = [loc EXCEPT ![w].error = msg]
  /\ pc' = [pc EXCEPT ![w] = "catch"]
  /\ UNCHANGED <<mailboxes, todo, failed>>

\* The catch block and the finally block of processMailbox.
CatchError(w) ==
  /\ pc[w] = "catch"
  /\ LET m == Head(todo[w]) IN
       mailboxes' = IF m \in DOMAIN mailboxes
                    THEN [mailboxes EXCEPT ![m] = ErrorUpdate(@, loc[w].error)]
                    ELSE mailboxes
  /\ Finish(w)
  /\ UNCHANGED <<inbox, sinceUid, store, ticks, aux>>

\* Step 3: imapClient.connect().
Connect(w) ==
  /\ pc[w] = "connect"
  /\ \/ /\ loc' = [loc EXCEPT ![w].connected = TRUE]
        /\ pc' = [pc EXCEPT ![w] = "fetch"]
        /\ UNCHANGED <<mailboxes, todo, failed>>
     \/ Throw(w, ConnectError)
  /\ UNCHANGED <<inbox, sinceUid, store, ticks, aux>>

\* Step 4: fetchNewMessages(mailbox.last_synced_uid); zero messages return.
Fetch(w) ==
  /\ pc[w] = "fetch"
  /\ LET m == Head(todo[w]) IN
     \/ \E star \in BOOLEAN :
          LET messages == FetchNewMessages(m, loc[w].last_synced_uid, star) IN
          IF Len(messages) = 0
          THEN Finish(w) /\ UNCHANGED mailboxes
          ELSE /\ loc' = [loc EXCEPT ![w].batch = messages, ![w].idx = 1,
                                     ![w].maxUid = loc[w].last_synced_uid]
               /\ pc' = [pc EXCEPT ![w] = "msg"]
               /\ UNCHANGED <<mailboxes, todo, failed>>
     \/ Throw(w, FetchError)
  /\ UNCHANGED <<inbox, sinceUid, store, ticks, aux>>


\* -------------------------------------------------------- the message loop
\* "if (message.uid > maxUid) maxUid = message.uid" at the head of the loop.
NextMaxUid(maxUid, uid) == IF uid > maxUid THEN uid ELSE maxUid

\* The locals when the loop goes on after a message.
LoopNext(l) ==
  [l EXCEPT !.idx = @ + 1, !.threadId = 0, !.existing = 0,
            !.existingCount = 0, !.bounceId = 0]

\* A catch block that leaves the loop.
CatchBreak(l) == [LoopNext(l) EXCEPT !.idx = Len(l.batch) + 1]

\* The catch block inside the loop logs the error and the loop goes on.
CatchContinue(l) == LoopNext(l)

\* The next position: another message of the batch, or step 6.
LoopPc(l) == IF l.idx <= Len(l.batch) THEN "msg" ELSE "update"

\* processMessage returned normally.
MessageDone(w) ==
  /\ loc' = [loc EXCEPT ![w] = LoopNext(@)]
  /\ pc' = [pc EXCEPT ![w] = LoopPc(LoopNext(loc[w]))]
  /\ UNCHANGED <<todo, failed>>

\* processMessage threw: caught by the loop of processMailbox.
MessageFailed(w) ==
  /\ loc' = [loc EXCEPT ![w] = CatchContinue(@)]
  /\ pc' = [pc EXCEPT ![w] = LoopPc(CatchContinue(loc[w]))]
  /\ failed' = [failed EXCEPT ![w] = @ \cup {loc[w].batch[loc[w].idx]}]
  /\ UNCHANGED todo

\* Head of the loop and the dedup guard of processMessage.
DedupCheck(w) ==
  /\ pc[w] = "msg"
  /\ LET m == Head(todo[w])
         u == loc[w].batch[loc[w].idx]
         l == [loc[w] EXCEPT !.maxUid = NextMaxUid(@, u)]
     IN /\ attempted' = [attempted EXCEPT ![m] = @ \cup {u}]
        /\ IF EmailExists(m, u)
           THEN /\ loc' = [loc EXCEPT ![w] = LoopNext(l)]
                /\ pc' = [pc EXCEPT ![w] = LoopPc(LoopNext(l))]
           ELSE /\ loc' = [loc EXCEPT ![w] = l]
                /\ pc' = [pc EXCEPT ![w] = "thread"]
  /\ UNCHANGED <<mailboxes, inbox, sinceUid, store, todo, failed, ticks,
                 now, arg, ret, side>>

\* "message.receivedAt || new Date().toISOString()".
ReceivedAt(message) ==
  IF Get(message, "receivedAt") # Undefined THEN Get(message, "receivedAt") ELSE now

\* "message.messageId || `${message.uid}@${mailbox.imap_host}`": the id made
\* of the UID is written as the UID, which no Message-ID header equals.
MessageIdOf(message) ==
  IF message.messageId # Undefined THEN message.messageId ELSE message.uid

\* "message.references = this.normalizeEmailArray(message.references)": the
\* array itself, or the empty array for a message without the property.
NormalizedReferences(message) ==
  IF "references" \in DOMAIN message THEN message.references ELSE {}

\* The email object processMessage hands to findOrCreateThread.
ThreadEmail(message) ==
  [subject |-> message.subject, inReplyTo |-> Get(message, "inReplyTo"),
   references |-> NormalizedReferences(message),
   receivedAt |-> ReceivedAt(message)]

\* Lookup 1 of findOrCreateThread: thread ids of the Emails of the mailbox
\* whose message_id is the In-Reply-To of the message.
ParentThreads(m, inReplyTo) ==
  IF inReplyTo = Undefined THEN {}
  ELSE { emails[i].thread_id :
           i \in { j \in 1..Len(emails) : /\ emails[j].mailbox_id = m
                                          /\ emails[j].message_id = inReplyTo
                                          /\ emails[j].thread_id # 0 } }

\* Lookup 2 of findOrCreateThread: thread ids of the Emails of the mailbox
\* whose message_id is one of the references (".limit(1)": any of them).
ReferencedThreads(m, references) ==
  { emails[i].thread_id :
      i \in { j \in 1..Len(emails) : /\ emails[j].mailbox_id = m
                                     /\ emails[j].message_id \in references
                                     /\ emails[j].thread_id # 0 } }

\* A subject lookup without ".eq('mailbox_id', mailboxId)".
SimilarThreadsAnyMailbox(m, subject) ==
  IF subject \in LongSubjects
  THEN { t \in 1..Len(threads) : threads[t].normalized_subject = subject }
  ELSE {}

\* Threads of the mailbox that the subject lookup of findOrCreateThread can
\* return: same normalized subject, of more than 5 characters.
SimilarThreads(m, subject) ==
  IF subject \in LongSubjects
  THEN { t \in 1..Len(threads) : threads[t].mailbox_id = m
                                 /\ threads[t].normalized_subject = subject }
  ELSE {}

\* ".gte('last_message_at', sevenDaysAgo)".
Recent(t) == threads[t].last_message_at >= now - SevenDays

\* The threads the lookups of findOrCreateThread can return for the email:
\* the threads of the parent message, else those of a referenced message,
\* else the threads with the same subject of the last 7 days (".limit(1)"
\* without an order: any of them).
FoundThreads(m, email) ==
  LET parents == ParentThreads(m, email.inReplyTo)
      referenced == ReferencedThreads(m, email.references)
      similar == { t \in SimilarThreads(m, email.subject) : Recent(t) }
  IN IF parents # {} THEN parents
     ELSE IF referenced # {} THEN referenced
     ELSE similar

\* findOrCreateThread: the thread of the parent message, else the thread of
\* a referenced message, else a thread with the same subject of the last 7
\* days, else a new thread.  The insert of a new thread may be rejected by
\* the store, which findOrCreateThread rethrows.
FindOrCreateThread(w) ==
  /\ pc[w] = "thread"
  /\ LET m == Head(todo[w])
         u == loc[w].batch[loc[w].idx]
         email == ThreadEmail(ParsedMessage(inbox[m][u], u))
         found == FoundThreads(m, email)
     IN IF found # {}
        THEN /\ \E t \in found : loc' = [loc EXCEPT ![w].threadId = t]
             /\ pc' = [pc EXCEPT ![w] = "insert"]
             /\ UNCHANGED <<threads, todo, failed>>
        ELSE \/ /\ threads' = Append(threads,
                                [mailbox_id |-> m,
                                 normalized_subject |-> email.subject,
                                 message_count |-> 1,
                                 last_message_at |-> email.receivedAt,
                                 is_unread |-> TRUE])
                /\ loc' = [loc EXCEPT ![w].threadId = Len(threads) + 1]
                /\ pc' = [pc EXCEPT ![w] = "insert"]
                /\ UNCHANGED <<todo, failed>>
             \/ /\ MessageFailed(w)
                /\ UNCHANGED threads
  /\ UNCHANGED <<mailboxes, inbox, sinceUid, emails, bounces, events, ticks, aux>>

\* Step 5 of processMessage: insert the Email row; the store rejects it on a
\* unique violation or on a fault of its own, and processMessage rethrows.
InsertEmail(w) ==
  /\ pc[w] = "insert"
  /\ LET m == Head(todo[w])
         u == loc[w].batch[loc[w].idx]
         message == ParsedMessage(inbox[m][u], u)
     IN \/ /\ ~InsertRejected(m, u, MessageIdOf(message))
           /\ emails' = Append(emails, [mailbox_id |-> m, uid |-> u,
                                        message_id |-> MessageIdOf(message),
                                        thread_id |-> loc[w].threadId,
                                        category |-> inbox[m][u].category,
                                        received_at |-> ReceivedAt(message),
                                        is_read |-> FALSE])
           /\ pc' = [pc EXCEPT ![w] = "stats"]
           /\ UNCHANGED <<loc, todo, failed>>
        \/ /\ MessageFailed(w)
           /\ UNCHANGED emails
  /\ UNCHANGED <<mailboxes, inbox, sinceUid, threads, bounces, events, ticks, aux>>

\* The rows updateThreadStats selects: the Emails with this thread_id.
ThreadMessages(t) == { i \in 1..Len(emails) : emails[i].thread_id = t }

\* The message count updateThreadStats computes from the thread's emails.
MessageCount(t) == Cardinality(ThreadMessages(t))

\* The row updateThreadStats writes: the count, the received_at of the first
\* row in descending order, and whether some row is unread.
ThreadStats(row, t) ==
  [row EXCEPT !.message_count = MessageCount(t),
              !.last_message_at =
                 Greatest({ emails[i].received_at : i \in ThreadMessages(t) }),
              !.is_unread = \E i \in ThreadMessages(t) : ~emails[i].is_read]

\* Step 6: updateThreadStats(threadId), then the BOUNCE branch of step 7.
UpdateThreadStats(w) ==
  /\ pc[w] = "stats"
  /\ LET m == Head(todo[w])
         msg == inbox[m][loc[w].batch[loc[w].idx]]
         t == loc[w].threadId
     IN /\ threads' = IF MessageCount(t) = 0 THEN threads
                      ELSE [threads EXCEPT ![t] = ThreadStats(@, t)]
        /\ IF msg.category = "BOUNCE" /\ msg.recipient # NoRecipient
           THEN /\ pc' = [pc EXCEPT ![w] = "bounce"]
                /\ UNCHANGED <<loc, todo, failed>>
           ELSE MessageDone(w)
  /\ UNCHANGED <<mailboxes, inbox, sinceUid, emails, bounces, events, ticks, aux>>

\* The aggregates of the recipient: the rows the select of processBounce
\* matches.
BounceRows(m, email) ==
  { b \in 1..Len(bounces) : bounces[b].mailbox_id = m /\ bounces[b].email = email }

\* processBounce 1: look the aggregate of the recipient up.  maybeSingle()
\* gives the row when exactly one matches and no data otherwise.
BounceLookup(w) ==
  /\ pc[w] = "bounce"
  /\ LET m == Head(todo[w])
         msg == inbox[m][loc[w].batch[loc[w].idx]]
         found == BounceRows(m, msg.recipient)
     IN IF Cardinality(found) # 1
        THEN loc' = [loc EXCEPT ![w].existing = 0, ![w].existingCount = 0]
        ELSE \E b \in found :
               loc' = [loc EXCEPT ![w].existing = b,
                                  ![w].existingCount = bounces[b].failure_count]
  /\ pc' = [pc EXCEPT ![w] = "bounceWrite"]
  /\ UNCHANGED <<mailboxes, inbox, sinceUid, store, todo, failed, ticks, aux>>

\* increment_failure(bounce_id): failure_count + 1 and last_failed_at = NOW()
\* in one UPDATE.
IncrementFailure(row) ==
  [row EXCEPT !.failure_count = @ + 1, !.last_failed_at = now]

\* A fallback that writes the count it read.
DirectUpdateSameCount(row, existingCount) ==
  [row EXCEPT !.failure_count = existingCount, !.last_failed_at = now]

\* The fallback: the direct update with the count the lookup read.
DirectUpdate(row, existingCount) ==
  [row EXCEPT !.failure_count = existingCount + 1, !.last_failed_at = now]

\* The aggregate processBounce inserts for a recipient without one.
NewBounce(m, email) ==
  [mailbox_id |-> m, email |-> email, failure_count |-> 1,
   first_failed_at |-> now, last_failed_at |-> now]

\* processBounce 2 and 3: increment_failure, or the direct update with the
\* count read before when the RPC fails, or the insert of a new aggregate.
\* A rejected direct update or insert makes processBounce return.
BounceWrite(w) ==
  /\ pc[w] = "bounceWrite"
  /\ LET m == Head(todo[w])
         msg == inbox[m][loc[w].batch[loc[w].idx]]
         b == loc[w].existing
     IN IF b # 0
        THEN \/ /\ bounces' = [bounces EXCEPT ![b] = IncrementFailure(@)]
                /\ loc' = [loc EXCEPT ![w].bounceId = b]
                /\ pc' = [pc EXCEPT ![w] = "bounceEvent"]
                /\ UNCHANGED <<todo, failed>>
             \/ /\ bounces' = [bounces EXCEPT
                                 ![b] = DirectUpdate(@, loc[w].existingCount)]
                /\ loc' = [loc EXCEPT ![w].bounceId = b]
                /\ pc' = [pc EXCEPT ![w] = "bounceEvent"]
                /\ UNCHANGED <<todo, failed>>
             \/ /\ MessageDone(w)
                /\ UNCHANGED bounces
        ELSE \/ /\ bounces' = Append(bounces, NewBounce(m, msg.recipient))
                /\ loc' = [loc EXCEPT ![w].bounceId = Len(bounces) + 1]
                /\ pc' = [pc EXCEPT ![w] = "bounceEvent"]
                /\ UNCHANGED <<todo, failed>>
             \/ /\ MessageDone(w)
                /\ UNCHANGED bounces
  /\ UNCHANGED <<mailboxes, inbox, sinceUid, emails, threads, events, ticks, aux>>

\* processBounce 4: append the bounce event; a rejected insert goes unnoticed.
BounceEvent(w) ==
  /\ pc[w] = "bounceEvent"
  /\ \/ events' = Append(events, [bounce_id |-> loc[w].bounceId,
                                  mailbox_id |-> Head(todo[w]),
                                  message_uid |-> loc[w].batch[loc[w].idx],
                                  occurred_at |-> now])
     \/ UNCHANGED events
  /\ MessageDone(w)
  /\ UNCHANGED <<mailboxes, inbox, sinceUid, emails, threads, bounces, ticks, aux>>

\* The row step 6 of processMailbox writes.
CheckpointUpdate(row, maxUid) ==
  [row EXCEPT !.last_synced_uid = maxUid, !.last_synced_at = now,
              !.status = "ACTIVE", !.last_error = NoError]

\* Step 6 of processMailbox, then the finally block.
UpdateCheckpoint(w) ==
  /\ pc[w] = "update"
  /\ LET m == Head(todo[w]) IN
       mailboxes' = IF m \in DOMAIN mailboxes
                    THEN [mailboxes EXCEPT ![m] = CheckpointUpdate(@, loc[w].maxUid)]
                    ELSE mailboxes
  /\ Finish(w)
  /\ UNCHANGED <<inbox, sinceUid, store, ticks, aux>>

\* ----------------------------------------------------- the legacy processor
\* processMailbox of the legacy processor returns.
LegacyReturn(w, client) ==
  /\ NextMailbox(w)
  /\ loc' = [loc EXCEPT ![w] = [InitLoc EXCEPT !.client = client]]
  /\ UNCHANGED failed

\* Step 1 of the legacy processMailbox: the same select, and with the row
\* the ImapClient.
LegacyLoad(w) ==
  /\ pc[w] = "legacyLoad"
  /\ LET m == Head(todo[w]) IN
       IF SelectActive(m)
       THEN /\ loc' = [loc EXCEPT ![w].last_synced_uid = mailboxes[m].last_synced_uid,
                                  ![w].client = ClientOpen]
            /\ pc' = [pc EXCEPT ![w] = "legacyConnect"]
            /\ UNCHANGED <<todo, failed>>
       ELSE LegacyReturn(w, NoClient)
  /\ UNCHANGED <<mailboxes, inbox, sinceUid, store, ticks, aux>>

\* connect() or fetchNewMessages() threw in the legacy processMailbox.
LegacyThrow(w, msg) ==
  /\ loc' = [loc EXCEPT ![w].error = msg]
  /\ pc' = [pc EXCEPT ![w] = "legacyCatch"]
  /\ UNCHANGED <<mailboxes, todo, failed>>

LegacyConnect(w) ==
  /\ pc[w] = "legacyConnect"
  /\ \/ /\ loc' = [loc EXCEPT ![w].connected = TRUE]
        /\ pc' = [pc EXCEPT ![w] = "legacyFetch"]
        /\ UNCHANGED <<mailboxes, todo, failed>>
     \/ LegacyThrow(w, ConnectError)
  /\ UNCHANGED <<inbox, sinceUid, store, ticks, aux>>

\* Step 4: the same fetchNewMessages(mailbox.last_synced_uid).
LegacyFetch(w) ==
  /\ pc[w] = "legacyFetch"
  /\ LET m == Head(todo[w]) IN
     \/ \E star \in BOOLEAN :
          LET messages == FetchNewMessages(m, loc[w].last_synced_uid, star) IN
          IF Len(messages) = 0
          THEN LegacyReturn(w, Disconnect(loc[w])) /\ UNCHANGED mailboxes
          ELSE /\ loc' = [loc EXCEPT ![w].batch = messages, ![w].idx = 1,
                                     ![w].maxUid = loc[w].last_synced_uid]
               /\ pc' = [pc EXCEPT ![w] = "legacyMsg"]
               /\ UNCHANGED <<mailboxes, todo, failed>>
     \/ LegacyThrow(w, FetchError)
  /\ UNCHANGED <<inbox, sinceUid, store, ticks, aux>>

\* The catch block and the finally block of the legacy processMailbox.
LegacyCatch(w) ==
  /\ pc[w] = "legacyCatch"
  /\ LET m == Head(todo[w]) IN
       mailboxes' = IF m \in DOMAIN mailboxes
                    THEN [mailboxes EXCEPT ![m] = ErrorUpdate(@, loc[w].error)]
                    ELSE mailboxes
  /\ LegacyReturn(w, Disconnect(loc[w]))
  /\ UNCHANGED <<inbox, sinceUid, store, ticks, aux>>

\* isBounceMessage: of its patterns the subjects of the messages meet
\* "/undelivered/i".
isBounceMessage(msg) == msg.subject \in {"undelivered mail"}

LegacyLoopPc(l) == IF l.idx <= Len(l.batch) THEN "legacyMsg" ELSE "legacyUpdate"

\* The loop of the legacy processMailbox goes on after a message.
LegacyMessageDone(w) ==
  /\ loc' = [loc EXCEPT ![w] = LoopNext(@)]
  /\ pc' = [pc EXCEPT ![w] = LegacyLoopPc(LoopNext(loc[w]))]
  /\ UNCHANGED <<todo, failed>>

\* Head of the loop: maxUid, isBounceMessage and parseBounce.  No lookup of
\* the UID comes before processBounce.
LegacyMessage(w) ==
  /\ pc[w] = "legacyMsg"
  /\ LET m == Head(todo[w])
         u == loc[w].batch[loc[w].idx]
         l == [loc[w] EXCEPT !.maxUid = NextMaxUid(@, u)]
     IN IF isBounceMessage(inbox[m][u]) /\ inbox[m][u].recipient # NoRecipient
        THEN /\ loc' = [loc EXCEPT ![w] = l]
             /\ pc' = [pc EXCEPT ![w] = "legacyBounce"]
        ELSE /\ loc' = [loc EXCEPT ![w] = LoopNext(l)]
             /\ pc' = [pc EXCEPT ![w] = LegacyLoopPc(LoopNext(l))]
  /\ UNCHANGED <<mailboxes, inbox, sinceUid, store, todo, failed, ticks, aux>>

\* Legacy processBounce 1: the lookup of the aggregate, with ".single()":
\* the row when exactly one matches and no data otherwise.
LegacyBounceLookup(w) ==
  /\ pc[w] = "legacyBounce"
  /\ LET m == Head(todo[w])
         msg == inbox[m][loc[w].batch[loc[w].idx]]
         found == BounceRows(m, msg.recipient)
     IN IF Cardinality(found) # 1
        THEN loc' = [loc EXCEPT ![w].existing = 0, ![w].existingCount = 0]
        ELSE \E b \in found :
               loc' = [loc EXCEPT ![w].existing = b,
                                  ![w].existingCount = bounces[b].failure_count]
  /\ pc' = [pc EXCEPT ![w] = "legacyBounceWrite"]
  /\ UNCHANGED <<mailboxes, inbox, sinceUid, store, todo, failed, ticks, aux>>

\* Legacy processBounce 2 and 3: as in the enhanced processor.
LegacyBounceWrite(w) ==
  /\ pc[w] = "legacyBounceWrite"
  /\ LET m == Head(todo[w])
         msg == inbox[m][loc[w].batch[loc[w].idx]]
         b == loc[w].existing
     IN IF b # 0
        THEN \/ /\ bounces' = [bounces EXCEPT ![b] = IncrementFailure(@)]
                /\ loc' = [loc EXCEPT ![w].bounceId = b]
                /\ pc' = [pc EXCEPT ![w] = "legacyBounceEvent"]
                /\ UNCHANGED <<todo, failed>>
             \/ /\ bounces' = [bounces EXCEPT
                                 ![b] = DirectUpdate(@, loc[w].existingCount)]
                /\ loc' = [loc EXCEPT ![w].bounceId = b]
                /\ pc' = [pc EXCEPT ![w] = "legacyBounceEvent"]
                /\ UNCHANGED <<todo, failed>>
             \/ /\ LegacyMessageDone(w)
                /\ UNCHANGED bounces
        ELSE \/ /\ bounces' = Append(bounces, NewBounce(m, msg.recipient))
                /\ loc' = [loc EXCEPT ![w].bounceId = Len(bounces) + 1]
                /\ pc' = [pc EXCEPT ![w] = "legacyBounceEvent"]
                /\ UNCHANGED <<todo, failed>>
             \/ /\ LegacyMessageDone(w)
                /\ UNCHANGED bounces
  /\ UNCHANGED <<mailboxes, inbox, sinceUid, emails, threads, events, ticks, aux>>

\* Legacy processBounce 4: the event, with raw_message and detected_at and
\* without message_uid and occurred_at.
LegacyBounceEvent(w) ==
  /\ pc[w] = "legacyBounceEvent"
  /\ \/ events' = Append(events, [bounce_id |-> loc[w].bounceId,
                                  mailbox_id |-> Head(todo[w]),
                                  message_uid |-> Undefined,
                                  occurred_at |-> Never])
     \/ UNCHANGED events
  /\ LegacyMessageDone(w)
  /\ UNCHANGED <<mailboxes, inbox, sinceUid, emails, threads, bounces, ticks, aux>>

\* The row step 6 of the legacy processMailbox writes.
LegacyCheckpointUpdate(row, maxUid) ==
  [row EXCEPT !.last_synced_uid = maxUid, !.status = "ACTIVE",
              !.last_error = NoError]

\* Step 6 of the legacy processMailbox, then the finally block.
LegacyUpdate(w) ==
  /\ pc[w] = "legacyUpdate"
  /\ LET m == Head(todo[w]) IN
       mailboxes' = IF m \in DOMAIN mailboxes
                    THEN [mailboxes EXCEPT
                            ![m] = LegacyCheckpointUpdate(@, loc[w].maxUid)]
                    ELSE mailboxes
  /\ LegacyReturn(w, Disconnect(loc[w]))
  /\ UNCHANGED <<inbox, sinceUid, store, ticks, aux>>

\* ------------------------------------------------------------------- Next
Next ==
  \/ \E m \in MailboxIds : Arrive(m)
  \/ \E m \in MailboxIds : Age(m)
  \/ \E w \in Workers : Tick(w)
  \/ \E w \in Workers : LoadMailbox(w)
  \/ \E w \in Workers : Connect(w)
  \/ \E w \in Workers : Fetch(w)
  \/ \E w \in Workers : CatchError(w)
  \/ \E w \in Workers : DedupCheck(w)
  \/ \E w \in Workers : FindOrCreateThread(w)
  \/ \E w \in Workers : InsertEmail(w)
  \/ \E w \in Workers : UpdateThreadStats(w)
  \/ \E w \in Workers : BounceLookup(w)
  \/ \E w \in Workers : BounceWrite(w)
  \/ \E w \in Workers : BounceEvent(w)
  \/ \E w \in Workers : UpdateCheckpoint(w)

Spec == Init /\ [][Next]_vars

\* The steps of the cycles of worker w.
Cycle(w) ==
  \/ LoadMailbox(w)
  \/ Connect(w)
  \/ Fetch(w)
  \/ CatchError(w)
  \/ DedupCheck(w)
  \/ FindOrCreateThread(w)
  \/ InsertEmail(w)
  \/ UpdateThreadStats(w)
  \/ BounceLookup(w)
  \/ BounceWrite(w)
  \/ BounceEvent(w)
  \/ UpdateCheckpoint(w)

\* Every await of a cycle settles: the store answers, and the timeouts of
\* the ImapFlow configuration (socket, greeting, connection) end a wait for
\* the IMAP server; the event loop then runs the continuation.
SpecFair == Spec /\ \A w \in Workers : WF_vars(Cycle(w))

\* ------------------------------------------------- PROCESSOR_MODE = both
InitBoth ==
  /\ inbox = [m \in MailboxIds |-> <<>>]
  /\ InitStoreMode(MailboxIds, "both")
  /\ NoCall

\* The scheduler alone: for each mailbox of a tick the enhanced processor
\* and then the legacy processor.
NextBoth ==
  \/ \E m \in MailboxIds : Arrive(m)
  \/ Tick("scheduler")
  \/ LoadMailbox("scheduler")
  \/ Connect("scheduler")
  \/ Fetch("scheduler")
  \/ CatchError("scheduler")
  \/ DedupCheck("scheduler")
  \/ FindOrCreateThread("scheduler")
  \/ InsertEmail("scheduler")
  \/ UpdateThreadStats("scheduler")
  \/ BounceLookup("scheduler")
  \/ BounceWrite("scheduler")
  \/ BounceEvent("scheduler")
  \/ UpdateCheckpoint("scheduler")
  \/ LegacyLoad("scheduler")
  \/ LegacyConnect("scheduler")
  \/ LegacyFetch("scheduler")
  \/ LegacyCatch("scheduler")
  \/ LegacyMessage("scheduler")
  \/ LegacyBounceLookup("scheduler")
  \/ LegacyBounceWrite("scheduler")
  \/ LegacyBounceEvent("scheduler")
  \/ LegacyUpdate("scheduler")

SpecBoth == InitBoth /\ [][NextBoth]_vars

\* ------------------------------------------------- a backlog on the server
\* The mailbox is added when its INBOX already holds messages, up to two
\* more than a batch; nothing is delivered afterwards.
InitBatch ==
  /\ inbox \in [MailboxIds -> SeqsUpTo(MessageTemplates, BatchSize + 2)]
  /\ InitStore(MailboxIds)
  /\ NoCall

\* The scheduler alone, on the backlog.
NextBatch ==
  \/ \E m \in MailboxIds : Age(m)
  \/ Tick("scheduler")
  \/ LoadMailbox("scheduler")
  \/ Connect("scheduler")
  \/ Fetch("scheduler")
  \/ CatchError("scheduler")
  \/ DedupCheck("scheduler")
  \/ FindOrCreateThread("scheduler")
  \/ InsertEmail("scheduler")
  \/ UpdateThreadStats("scheduler")
  \/ BounceLookup("scheduler")
  \/ BounceWrite("scheduler")
  \/ BounceEvent("scheduler")
  \/ UpdateCheckpoint("scheduler")

SpecBatch == InitBatch /\ [][NextBatch]_vars

\* ------------------------------------------------------------ conversations
\* Messages of conversations: a message with a Message-ID, a reply to it
\* under another subject, a message with a short subject and a message with
\* the subject of the first one and no Message-ID header.
ThreadTemplates ==
  { [parses |-> TRUE, category |-> "HUMAN", subject |-> "project plan",
     recipient |-> NoRecipient, message_id |-> 101,
     in_reply_to |-> Undefined, date |-> 0],
    [parses |-> TRUE, category |-> "HUMAN", subject |-> "lunch menu",
     recipient |-> NoRecipient, message_id |-> 102,
     in_reply_to |-> 101, date |-> 0],
    [parses |-> TRUE, category |-> "HUMAN", subject |-> "hi",
     recipient |-> NoRecipient, message_id |-> Undefined,
     in_reply_to |-> Undefined, date |-> 0],
    [parses |-> TRUE, category |-> "HUMAN", subject |-> "project plan",
     recipient |-> NoRecipient, message_id |-> Undefined,
     in_reply_to |-> Undefined, date |-> 0] }

\* A message of a conversation is delivered; its date is the day it arrives.
ArriveThreaded(m) == Deliver(m, ThreadTemplates, MaxUid)

\* Days that pass at once.
DayJumps == {3, 7}

\* Time passes.  EMAIL_FETCH_DAYS is 30, so that no message leaves the SINCE
\* window within MaxDays.
Pass ==
  /\ \E d \in DayJumps : now + d <= MaxDays /\ now' = now + d
  /\ UNCHANGED <<mailboxes, inbox, sinceUid, store, pc, todo, loc, failed,
                 ticks, arg, ret, attempted, side>>

\* The scheduler alone, on one mailbox, over several days.
NextThread ==
  \/ \E m \in MailboxIds : ArriveThreaded(m)
  \/ Pass
  \/ Tick("scheduler")
  \/ LoadMailbox("scheduler")
  \/ Connect("scheduler")
  \/ Fetch("scheduler")
  \/ CatchError("scheduler")
  \/ DedupCheck("scheduler")
  \/ FindOrCreateThread("scheduler")
  \/ InsertEmail("scheduler")
  \/ UpdateThreadStats("scheduler")
  \/ UpdateCheckpoint("scheduler")

SpecThread == Init /\ [][NextThread]_vars

\* --------------------------------------------------------- the API routes
\* Requests the API serves in a run.
MaxRequests == 2

\* What no route writes.
syncState == <<mailboxes, inbox, sinceUid, bounces, events, pc, todo, loc,
               failed, ticks, now, arg, ret, attempted, mode>>

\* The route replies with an HTTP status.
Reply(status) ==
  api' = [NoRequest EXCEPT !.requests = api.requests + 1, !.status = status]

\* PUT /emails/:id/read, first store call: the update of is_read of the
\* row, which gives the row back; without a row or on an error the route
\* replies 500.
PutEmailRead ==
  /\ api.route = "none" /\ api.requests < MaxRequests
  /\ \/ \E id \in 1..Len(emails), is_read \in BOOLEAN :
          /\ emails' = [emails EXCEPT ![id].is_read = is_read]
          /\ api' = [api EXCEPT !.route = "PUT /emails/:id/read", !.step = 1,
                                !.id = id, !.is_read = is_read,
                                !.thread_id = emails[id].thread_id]
     \/ Reply(500) /\ UNCHANGED emails
  /\ UNCHANGED <<threads, syncState>>

\* DELETE /emails/:id, first store call: the select of thread_id.
DeleteEmailSelect ==
  /\ api.route = "none" /\ api.requests < MaxRequests
  /\ \E id \in 1..Len(emails) :
       api' = [api EXCEPT !.route = "DELETE /emails/:id", !.step = 1,
                             !.id = id, !.thread_id = emails[id].thread_id]
  /\ UNCHANGED <<emails, threads, syncState>>

\* The rows of a table without the row id.
Without(rows, id) ==
  [i \in 1..(Len(rows) - 1) |-> IF i < id THEN rows[i] ELSE rows[i + 1]]

\* DELETE /emails/:id, second store call: the delete; on an error the
\* route replies 500.
DeleteEmail ==
  /\ api.route = "DELETE /emails/:id" /\ api.step = 1
  /\ \/ /\ emails' = Without(emails, api.id)
        /\ api' = [api EXCEPT !.step = 2]
     \/ Reply(500) /\ UNCHANGED emails
  /\ UNCHANGED <<threads, syncState>>

\* The last store calls of PUT /emails/:id/read and of DELETE /emails/:id:
\* updateThreadStats(thread_id), which returns without a write when the
\* thread has no Email; then the reply.
RouteUpdateThreadStats ==
  /\ \/ api.route = "PUT /emails/:id/read" /\ api.step = 1
     \/ api.route = "DELETE /emails/:id" /\ api.step = 2
  /\ LET t == api.thread_id IN
       threads' = IF t = 0 \/ MessageCount(t) = 0 THEN threads
                  ELSE [threads EXCEPT ![t] = ThreadStats(@, t)]
  /\ Reply(200)
  /\ UNCHANGED <<emails, syncState>>

\* PUT /threads/:id/read, first store call: is_read of every Email of the
\* thread.
PutThreadReadEmails ==
  /\ api.route = "none" /\ api.requests < MaxRequests
  /\ \E t \in 1..Len(threads), is_read \in BOOLEAN :
       /\ emails' = [i \in 1..Len(emails) |->
                       IF emails[i].thread_id = t
                       THEN [emails[i] EXCEPT !.is_read = is_read]
                       ELSE emails[i]]
       /\ api' = [api EXCEPT !.route = "PUT /threads/:id/read", !.step = 1,
                             !.id = t, !.is_read = is_read, !.thread_id = t]
  /\ UNCHANGED <<threads, syncState>>

\* PUT /threads/:id/read, second store call: is_unread of the thread, the
\* opposite of the is_read of the request; on an error the route replies
\* 500.
PutThreadRead ==
  /\ api.route = "PUT /threads/:id/read" /\ api.step = 1
  /\ \/ threads' = [threads EXCEPT ![api.id].is_unread = ~api.is_read]
        /\ Reply(200)
     \/ UNCHANGED threads /\ Reply(500)
  /\ UNCHANGED <<emails, syncState>>

\* The scheduler on one mailbox next to the API.
NextApi ==
  \/ \E m \in MailboxIds : ArriveThreaded(m)
  \/ Tick("scheduler")
  \/ LoadMailbox("scheduler")
  \/ Connect("scheduler")
  \/ Fetch("scheduler")
  \/ CatchError("scheduler")
  \/ DedupCheck("scheduler")
  \/ FindOrCreateThread("scheduler")
  \/ InsertEmail("scheduler")
  \/ UpdateThreadStats("scheduler")
  \/ UpdateCheckpoint("scheduler")
  \/ PutEmailRead
  \/ DeleteEmailSelect
  \/ DeleteEmail
  \/ RouteUpdateThreadStats
  \/ PutThreadReadEmails
  \/ PutThreadRead

SpecApi == Init /\ [][NextApi]_vars

\* ------------------------------------------------- replies with References
\* A message with a Message-ID and a reply to it under another subject whose
\* In-Reply-To names a message the mailbox never received and whose
\* References name the first message.
RefTemplates ==
  { [parses |-> TRUE, category |-> "HUMAN", subject |-> "project plan",
     recipient |-> NoRecipient, message_id |-> 101,
     in_reply_to |-> Undefined, references |-> {}, date |-> 0],
    [parses |-> TRUE, category |-> "HUMAN", subject |-> "lunch menu",
     recipient |-> NoRecipient, message_id |-> 102,
     in_reply_to |-> 103, references |-> {101, 103}, date |-> 0] }

ArriveRefs(m) == Deliver(m, RefTemplates, MaxUid)

\* The scheduler alone, on one mailbox.
NextRefs ==
  \/ \E m \in MailboxIds : ArriveRefs(m)
  \/ Tick("scheduler")
  \/ LoadMailbox("scheduler")
  \/ Connect("scheduler")
  \/ Fetch("scheduler")
  \/ CatchError("scheduler")
  \/ DedupCheck("scheduler")
  \/ FindOrCreateThread("scheduler")
  \/ InsertEmail("scheduler")
  \/ UpdateThreadStats("scheduler")
  \/ UpdateCheckpoint("scheduler")

SpecRefs == Init /\ [][NextRefs]_vars

\* ------------------------------------------------------- bounces over days
\* Bounce messages for two recipients and a message of a person.
BounceTemplates ==
  { [parses |-> TRUE, category |-> "BOUNCE", subject |-> "undelivered mail",
     recipient |-> "alice@example.com", message_id |-> Undefined,
     in_reply_to |-> Undefined, date |-> 0],
    [parses |-> TRUE, category |-> "BOUNCE", subject |-> "undelivered mail",
     recipient |-> "bob@example.com", message_id |-> Undefined,
     in_reply_to |-> Undefined, date |-> 0],
    [parses |-> TRUE, category |-> "HUMAN", subject |-> "project plan",
     recipient |-> NoRecipient, message_id |-> Undefined,
     in_reply_to |-> Undefined, date |-> 0] }

\* A bounce or another message is delivered.
ArriveBounce(m) == Deliver(m, BounceTemplates, MaxUid)

\* The scheduler alone, on one mailbox, over several days.
NextBounce ==
  \/ \E m \in MailboxIds : ArriveBounce(m)
  \/ Pass
  \/ Tick("scheduler")
  \/ LoadMailbox("scheduler")
  \/ Connect("scheduler")
  \/ Fetch("scheduler")
  \/ CatchError("scheduler")
  \/ DedupCheck("scheduler")
  \/ FindOrCreateThread("scheduler")
  \/ InsertEmail("scheduler")
  \/ UpdateThreadStats("scheduler")
  \/ BounceLookup("scheduler")
  \/ BounceWrite("scheduler")
  \/ BounceEvent("scheduler")
  \/ UpdateCheckpoint("scheduler")

SpecBounce == Init /\ [][NextBounce]_vars

\* ---------------------------------------------------------- normalizeSubject
\* A subject is a sequence of tokens: a reply or forward prefix, a blank,
\* the tag [External] or a word; the lower-case tokens are what toLowerCase
\* makes of them.
SubjectTokens == {"Re:", "Fwd:", " ", "[External]", "Plan"}

Subjects == SeqsUpTo(SubjectTokens, MaxSubjectLen)

\* "(re|fwd|fw):" under the flag i.
IsReplyPrefix(tok) == tok \in {"Re:", "re:", "Fwd:", "fwd:", "Fw:", "fw:"}

\* "\s".
IsSpace(tok) == tok = " "

\* "[external]" under the flag i.
IsExternalTag(tok) == tok \in {"[External]", "[external]"}

RECURSIVE DropSpaces(_)
DropSpaces(s) ==
  IF s # <<>> /\ IsSpace(Head(s)) THEN DropSpaces(Tail(s)) ELSE s

RECURSIVE DropTrailingSpaces(_)
DropTrailingSpaces(s) ==
  IF s # <<>> /\ IsSpace(s[Len(s)])
  THEN DropTrailingSpaces(SubSeq(s, 1, Len(s) - 1)) ELSE s

\* ".replace(/^(re|fwd|fw):\s*/gi, '')": the pattern is anchored at the start
\* of the string, so it matches once at most.
StripPrefix(s) ==
  IF s # <<>> /\ IsReplyPrefix(Head(s)) THEN DropSpaces(Tail(s)) ELSE s

\* ".replace(/\[external\]/gi, '')".
RemoveExternal(s) == SelectSeq(s, LAMBDA tok : ~IsExternalTag(tok))

\* ".replace(/\s+/g, ' ')".
RECURSIVE CollapseSpaces(_)
CollapseSpaces(s) ==
  IF Len(s) < 2 THEN s
  ELSE IF IsSpace(s[1]) /\ IsSpace(s[2]) THEN CollapseSpaces(Tail(s))
  ELSE <<Head(s)>> \o CollapseSpaces(Tail(s))

\* ".trim()".
Trim(s) == DropTrailingSpaces(DropSpaces(s))

LowerCase(tok) ==
  CASE tok = "Re:" -> "re:"
    [] tok = "Fwd:" -> "fwd:"
    [] tok = "Fw:" -> "fw:"
    [] tok = "[External]" -> "[external]"
    [] tok = "Plan" -> "plan"
    [] OTHER -> tok

\* ".toLowerCase()".
ToLowerCase(s) == [i \in 1..Len(s) |-> LowerCase(s[i])]

normalizeSubject(subject) ==
  IF subject = <<>> THEN <<>>
  ELSE ToLowerCase(Trim(CollapseSpaces(RemoveExternal(StripPrefix(subject)))))

\* What ret holds before the call has returned.
NotCalled == <<"(not called)">>

\* normalizeSubject is about to be called with some subject.
InitNormalize ==
  /\ arg \in Subjects
  /\ ret = NotCalled
  /\ inbox = [m \in MailboxIds |-> <<>>]
  /\ InitStore(MailboxIds)

\* The call.
CallNormalizeSubject ==
  /\ ret = NotCalled
  /\ ret' = normalizeSubject(arg)
  /\ UNCHANGED <<mailboxes, inbox, sinceUid, store, pc, todo, loc, failed,
                 ticks, now, arg, attempted, side>>

NextNormalize == CallNormalizeSubject

SpecNormalize == InitNormalize /\ [][NextNormalize]_vars

\* ------------------------------------------------------------- classifier
\* The senders, subjects and header names classify is called with.
Senders == {"mailer-daemon@example.com", "noreply@store.example",
            "notifications@app.example", "news@list.example",
            "bob@example.com"}

ClassifySubjects == {"undelivered mail", "50% off - limited time",
                     "password reset", "weekly digest", "newsletter", "hello"}

HeaderNames == {"list-unsubscribe", "list-post", "list-id", "reply-to"}

\* "headers: parsed.headers" hands the Map of mailparser on; a caller may
\* also pass a plain object keyed by the header names.
HeaderKinds == {"Map", "Object"}

\* How the names of the headers of a message are written: list-unsubscribe,
\* List-Unsubscribe or LIST-UNSUBSCRIBE.
Spellings == {"lower", "Title", "UPPER"}

\* The headers classify is called with: the names the message carries and
\* their spelling.  The Map of mailparser has its keys in lower case.
ClassifyHeaders ==
  { h \in [kind : HeaderKinds, names : SUBSET HeaderNames, spelling : Spellings] :
      h.kind = "Map" => h.spelling = "lower" }

\* The emails classify is called with.  links is the number of URLs in the
\* body, recipients the length of the to array.
ClassifyInputs ==
  [from : Senders, subject : ClassifySubjects, headers : ClassifyHeaders,
   links : {0, 6}, recipients : {1, 2}]

\* "headers[name] || headers[Name]": two property reads, of the name in lower
\* case and of the name with capital initials.  The entries of a Map are
\* not properties of it, so the reads give undefined for a Map.
HeaderProperty(headers, name) ==
  /\ headers.kind = "Object"
  /\ name \in headers.names
  /\ headers.spelling \in {"lower", "Title"}

\* from.includes(...) and subject.includes(...) of isBounce.
isBounce(email) ==
  \/ email.from \in {"mailer-daemon@example.com"}
  \/ email.subject \in {"undelivered mail"}

\* transactionalPatterns against from and subject, and no List-Unsubscribe.
isTransactional(email) ==
  /\ \/ email.from \in {"noreply@store.example", "notifications@app.example"}
     \/ email.subject \in {"password reset"}
  /\ ~HeaderProperty(email.headers, "list-unsubscribe")

\* notificationPatterns against from and subject.
isNotification(email) ==
  \/ email.from \in {"notifications@app.example"}
  \/ email.subject \in {"weekly digest"}

\* List-Unsubscribe and List-Post, or newsletterPatterns against the subject.
isNewsletter(email) ==
  \/ /\ HeaderProperty(email.headers, "list-unsubscribe")
     /\ HeaderProperty(email.headers, "list-post")
  \/ email.subject \in {"newsletter"}

\* List-Unsubscribe, or marketingPatterns against the subject and more than
\* 5 links.
isMarketing(email) ==
  \/ HeaderProperty(email.headers, "list-unsubscribe")
  \/ email.subject \in {"50% off - limited time"} /\ email.links > 5

\* Not an automated sender, a personal Reply-To or one recipient, and no
\* list header.
isHuman(email) ==
  /\ email.from \notin {"noreply@store.example", "notifications@app.example"}
  /\ \/ HeaderProperty(email.headers, "reply-to")
     \/ email.recipients = 1
  /\ ~HeaderProperty(email.headers, "list-unsubscribe")
  /\ ~HeaderProperty(email.headers, "list-id")

\* classify: category and confidence (in hundredths) of the first check
\* that succeeds.
classify(email) ==
  IF isBounce(email) THEN <<"BOUNCE", 100>>
  ELSE IF isTransactional(email) THEN <<"TRANSACTIONAL", 90>>
  ELSE IF isNotification(email) THEN <<"NOTIFICATION", 85>>
  ELSE IF isNewsletter(email) THEN <<"NEWSLETTER", 75>>
  ELSE IF isMarketing(email) THEN <<"MARKETING", 80>>
  ELSE IF isHuman(email) THEN <<"HUMAN", 70>>
  ELSE <<"UNKNOWN", 0>>

\* classify is about to be called with some email.
InitClassify ==
  /\ arg \in ClassifyInputs
  /\ ret = NotCalled
  /\ inbox = [m \in MailboxIds |-> <<>>]
  /\ InitStore(MailboxIds)

\* The call.
CallClassify ==
  /\ ret = NotCalled
  /\ ret' = classify(arg)
  /\ UNCHANGED <<mailboxes, inbox, sinceUid, store, pc, todo, loc, failed,
                 ticks, now, arg, attempted, side>>

NextClassify == CallClassify

SpecClassify == InitClassify /\ [][NextClassify]_vars

\* ------------------------------------------------------- the bounce parser
\* Addresses the patterns of extractRecipientEmail capture in a bounce: a
\* recipient, the same in capitals, addresses of the mail system, the local
\* part of a Message-ID and the name of an inline image.
Candidates == {"alice@example.com", "Alice@Example.COM",
               "postmaster@example.com", "noreply@example.com",
               "0123456789abcdef@mail.example.com", "logo@2x.png"}

\* "match[1].trim().toLowerCase()".
ToLowerAddress(addr) ==
  IF addr = "Alice@Example.COM" THEN "alice@example.com" ELSE addr

\* isValidEmail: of the checks, the candidates fail "/^[0-9a-f]{8,}/" on the
\* local part and the file extensions of invalidPatterns.
isValidEmail(email) ==
  /\ email \notin {"0123456789abcdef@mail.example.com"}
  /\ email \notin {"logo@2x.png"}

\* "systemAddresses.some((sys) => email.startsWith(sys))".
IsSystemAddress(email) ==
  email \in {"postmaster@example.com", "noreply@example.com"}

\* An extractRecipientEmail without the filter on system addresses.
KeepSystemAddresses(potentialEmails) == potentialEmails

\* "Array.from(potentialEmails).filter(...)".
FilterSystemAddresses(potentialEmails) ==
  SelectSeq(potentialEmails, LAMBDA email : ~IsSystemAddress(email))

\* extractRecipientEmail on the matches of the patterns in body and subject,
\* in the order the loop meets them: the first one, in lower case, that is
\* valid and no system address, or null.
extractRecipientEmail(matches) ==
  LET lower == [i \in 1..Len(matches) |-> ToLowerAddress(matches[i])]
      potentialEmails == SelectSeq(lower, isValidEmail)
      validEmails == FilterSystemAddresses(potentialEmails)
  IN IF Len(validEmails) > 0 THEN validEmails[1] ELSE NoRecipient

\* The ways an address stands in the text of a bounce, one for each pattern
\* of extractRecipientEmail, in the order of the patterns array: after
\* "failed ... to", after "Final-Recipient: rfc822;", after
\* "Original-Recipient:", in angle brackets, after "to:" or "user:", and
\* bare.
Forms == <<"failed to", "Final-Recipient", "Original-Recipient", "angle",
           "contextual", "bare">>

\* The text of a bounce: up to MaxMatches addresses, each in one form.
Bodies == SeqsUpTo([addr : Candidates, form : Range(Forms)], MaxMatches)

\* Pattern p of the array matches the occurrence.  Patterns 5 and 6 are
\* written "\\s*" and "\\b" in the regex literals: they ask for a backslash
\* in the text, before "s*" or "b", which the text of a mail does not hold.
PatternMatches(p, occ) == p <= 4 /\ Forms[p] = occ.form

\* The addresses pattern p captures in the body, in the order of the text.
RECURSIVE Captures(_, _)
Captures(p, body) ==
  IF body = <<>> THEN <<>>
  ELSE (IF PatternMatches(p, Head(body)) THEN <<Head(body).addr>> ELSE <<>>)
       \o Captures(p, Tail(body))

\* "for (const pattern of patterns)": the captures of all patterns, in the
\* order the loop meets them.
RECURSIVE LoopMatches(_, _)
LoopMatches(p, body) ==
  IF p > Len(Forms) THEN <<>>
  ELSE Captures(p, body) \o LoopMatches(p + 1, body)

\* Bounces; recipient is the failedRecipient parseBounce returns for the
\* message.
ParsedBounces ==
  { [parses |-> TRUE, category |-> "BOUNCE", subject |-> "undelivered mail",
     recipient |-> extractRecipientEmail(LoopMatches(1, body)),
     message_id |-> Undefined, in_reply_to |-> Undefined, date |-> 0,
     matches |-> LoopMatches(1, body), body |-> body] :
       body \in Bodies }

\* A bounce is delivered.
ArriveParsed(m) == Deliver(m, ParsedBounces, TickMaxUid)

\* The scheduler alone, on bounces.
NextRecipient ==
  \/ \E m \in MailboxIds : ArriveParsed(m)
  \/ Tick("scheduler")
  \/ LoadMailbox("scheduler")
  \/ Connect("scheduler")
  \/ Fetch("scheduler")
  \/ CatchError("scheduler")
  \/ DedupCheck("scheduler")
  \/ FindOrCreateThread("scheduler")
  \/ InsertEmail("scheduler")
  \/ UpdateThreadStats("scheduler")
  \/ BounceLookup("scheduler")
  \/ BounceWrite("scheduler")
  \/ BounceEvent("scheduler")
  \/ UpdateCheckpoint("scheduler")

SpecRecipient == Init /\ [][NextRecipient]_vars

\* ----------------------------------------------------- classifyBounceType
\* extractErrorCode returns null when the body holds no SMTP code.
NoErrorCode == 0

\* "/\b([245]\d{2})\b/": the codes extractErrorCode can return.
ErrorCodes == (200..299) \cup (400..599)

\* What the patterns of classifyBounceType can find in a body.
BodyPhrases == {"user not found", "mailbox not found", "account disabled",
                "mailbox full", "quota exceeded", "temporarily"}

hardBounceCodes == 550..554

softBounceCodes == 450..453

\* A classifyBounceType that skips the first test on the body.
HardBodyNever(body) == FALSE

\* "/user.*not.*found|mailbox.*not.*found|account.*disabled/i.test(body)".
HardBody(body) ==
  body \cap {"user not found", "mailbox not found", "account disabled"} # {}

\* "/mailbox.*full|quota.*exceeded|temporarily/i.test(body)".
SoftBody(body) ==
  body \cap {"mailbox full", "quota exceeded", "temporarily"} # {}

\* "errorCode.startsWith(digit)" for a code of three digits.
StartsWith(errorCode, digit) == errorCode \div 100 = digit

classifyBounceType(errorCode, body) ==
  IF errorCode = NoErrorCode
  THEN IF HardBody(body) THEN "HARD"
       ELSE IF SoftBody(body) THEN "SOFT"
       ELSE "UNKNOWN"
  ELSE IF errorCode \in hardBounceCodes THEN "HARD"
  ELSE IF errorCode \in softBounceCodes THEN "SOFT"
  ELSE IF StartsWith(errorCode, 5) THEN "HARD"
  ELSE IF StartsWith(errorCode, 4) THEN "SOFT"
  ELSE "UNKNOWN"

\* classifyBounceType is about to be called by parseBounce with the result
\* of extractErrorCode and the body.
InitBounceType ==
  /\ arg \in [errorCode : ErrorCodes \cup {NoErrorCode}, body : SUBSET BodyPhrases]
  /\ ret = NotCalled
  /\ inbox = [m \in MailboxIds |-> <<>>]
  /\ InitStore(MailboxIds)

\* The call.
CallClassifyBounceType ==
  /\ ret = NotCalled
  /\ ret' = <<classifyBounceType(arg.errorCode, arg.body)>>
  /\ UNCHANGED <<mailboxes, inbox, sinceUid, store, pc, todo, loc, failed,
                 ticks, now, arg, attempted, side>>

NextBounceType == CallClassifyBounceType

SpecBounceType == InitBounceType /\ [][NextBounceType]_vars

\* ------------------------------------------- one tick over several mailboxes
\* The mailboxes of the run with two accounts.
TickMailboxIds == {1, 2}

InitTick == InitWith(TickMailboxIds)

\* PUT /mailboxes/:id with a status in the body: the user pauses a mailbox
\* or switches it on again.
PutMailbox(m) ==
  /\ \E st \in {"ACTIVE", "DISABLED"} :
       /\ mailboxes[m].status # st
       /\ mailboxes' = [mailboxes EXCEPT ![m].status = st]
  /\ UNCHANGED <<inbox, sinceUid, store, pc, todo, loc, failed, ticks, aux>>

\* A message is delivered to one of the two accounts.
ArriveAt(m) == Deliver(m, MessageTemplates, TickMaxUid)

\* The scheduler alone, over two mailboxes.
NextTick ==
  \/ \E m \in TickMailboxIds : ArriveAt(m)
  \/ \E m \in TickMailboxIds : PutMailbox(m)
  \/ Tick("scheduler")
  \/ LoadMailbox("scheduler")
  \/ Connect("scheduler")
  \/ Fetch("scheduler")
  \/ CatchError("scheduler")
  \/ DedupCheck("scheduler")
  \/ FindOrCreateThread("scheduler")
  \/ InsertEmail("scheduler")
  \/ UpdateThreadStats("scheduler")
  \/ BounceLookup("scheduler")
  \/ BounceWrite("scheduler")
  \/ BounceEvent("scheduler")
  \/ UpdateCheckpoint("scheduler")

SpecTick == InitTick /\ [][NextTick]_vars


\* ------------------------------------------------------------- properties
\* What the properties say of the store and of a worker's step.
HasEmailRow(m, u) ==
  \E i \in 1..Len(emails) : emails[i].mailbox_id = m /\ emails[i].uid = u

EmailRows(m, u) ==
  { i \in 1..Len(emails) : emails[i].mailbox_id = m /\ emails[i].uid = u }

EventRows(m, u) ==
  { i \in 1..Len(events) : events[i].mailbox_id = m /\ events[i].message_uid = u }

RECURSIVE TotalFailures(_, _)
TotalFailures(m, n) ==
  IF n = 0 THEN 0
  ELSE (IF bounces[n].mailbox_id = m THEN bounces[n].failure_count ELSE 0)
       + TotalFailures(m, n - 1)

BounceEmails(m) ==
  { i \in 1..Len(emails) : emails[i].mailbox_id = m /\ emails[i].category = "BOUNCE" }

\* The message worker w is at, and the mailbox of its cycle.
CurMailbox(w) == Head(todo[w])
CurUid(w) == loc[w].batch[loc[w].idx]

InMessage(w) ==
  pc[w] \in {"msg", "thread", "insert", "stats", "bounce", "bounceWrite", "bounceEvent"}

\* The step is one of worker w.
Moves(w) == pc'[w] # pc[w] \/ loc'[w] # loc[w] \/ todo'[w] # todo[w]

\* Worker w takes step 6 of processMailbox in this step.
WritesCheckpoint(w) == pc[w] = "update" /\ pc'[w] # "update"

\* UIDs of the batch of w that lie at or below the checkpoint the cycle loaded:
\* messages an earlier cycle has had in its batch.
Redelivered(w) ==
  { u \in Range(loc[w].batch) : u <= loc[w].last_synced_uid }

\* C1: at most one Email row exists for every (mailbox_id, uid), and no step
\* of a cycle on a message whose UID is already stored adds an Email row.
C1_OneEmailPerUid ==
  /\ [](\A m \in MailboxIds : \A u \in 1..MaxUid : Cardinality(EmailRows(m, u)) <= 1)
  /\ [][\A w \in Workers :
          (InMessage(w) /\ Moves(w) /\ HasEmailRow(CurMailbox(w), CurUid(w)))
            => emails' = emails]_vars

\* A cycle whose batch held an already-stored UID has run its loop to the end.
C1_Witness ==
  \E w \in Workers :
    /\ pc[w] = "update"
    /\ \E u \in Redelivered(w) : Cardinality(EmailRows(CurMailbox(w), u)) = 1

\* C2: every (mailbox_id, uid) has at most one BounceEvent, the failure
\* counts of a mailbox sum to at most one per stored bounce message, and
\* processMessage on an already-stored UID returns to the loop with the
\* store unchanged.
C2_BounceOncePerUid ==
  /\ [](\A m \in MailboxIds :
          /\ \A u \in 1..MaxUid : Cardinality(EventRows(m, u)) <= 1
          /\ TotalFailures(m, Len(bounces)) <= Cardinality(BounceEmails(m)))
  /\ [][\A w \in Workers :
          (pc[w] = "msg" /\ Moves(w) /\ HasEmailRow(CurMailbox(w), CurUid(w)))
            => /\ UNCHANGED store
               /\ pc'[w] \in {"msg", "update"}]_vars

\* A bounce message that was stored with its event has been delivered again
\* and skipped.
C2_Witness ==
  \E w \in Workers :
    /\ pc[w] \in {"msg", "update"}
    /\ loc[w].idx > 1
    /\ LET m == CurMailbox(w)
           u == loc[w].batch[loc[w].idx - 1]
       IN /\ u \in Redelivered(w)
          /\ inbox[m][u].category = "BOUNCE"
          /\ Cardinality(EventRows(m, u)) = 1
          /\ TotalFailures(m, Len(bounces)) = 1

\* C3: the checkpoint a cycle writes is below the UID of every message
\* whose processing failed in that cycle.
C3_CheckpointBelowFailed ==
  [][\A w \in Workers :
       WritesCheckpoint(w)
         => \A f \in failed[w] :
              mailboxes'[CurMailbox(w)].last_synced_uid < f]_vars

\* C4: after a cycle, every message whose processing failed and that is
\* still inside the SINCE window is in the UID range of the next fetch of
\* some server.
C4_FailedMessageFetchedAgain ==
  [][\A w \in Workers :
       WritesCheckpoint(w)
         => \A f \in failed[w] :
              (~HasEmailRow(CurMailbox(w), f) /\ f >= sinceUid[CurMailbox(w)])
                => \E star \in BOOLEAN :
                     f \in SearchUids(CurMailbox(w),
                                      mailboxes'[CurMailbox(w)].last_synced_uid, star)]_vars

\* C5: last_synced_uid of a mailbox never decreases.
C5_CheckpointNeverRegresses ==
  [][\A m \in MailboxIds :
       mailboxes'[m].last_synced_uid >= mailboxes[m].last_synced_uid]_vars

\* C6: when a cycle has written its checkpoint, no Email row of the mailbox
\* has a UID above last_synced_uid.
C6_CheckpointCoversEmails ==
  [][\A w \in Workers :
       WritesCheckpoint(w)
         => \A i \in 1..Len(emails) :
              emails[i].mailbox_id = CurMailbox(w)
                => emails[i].uid <= mailboxes'[CurMailbox(w)].last_synced_uid]_vars

\* C7: no two workers are inside processMailbox for the same mailbox.
C7_OneCycleInFlight ==
  \A m \in MailboxIds :
    Cardinality({ w \in Workers : pc[w] # "idle" /\ CurMailbox(w) = m }) <= 1

\* C8: a cycle trigger selects every mailbox whose status is ERROR, so that
\* its next sync can succeed and set it back to ACTIVE.
C8_ErrorMailboxSelected ==
  [][ticks' # ticks
       => \A m \in MailboxIds :
            mailboxes[m].status = "ERROR"
              => \E w \in Workers : pc[w] = "idle" /\ m \in Range(todo'[w])]_vars

\* C9: a cycle writes no store row and leaves last_synced_uid alone up to and
\* including its catch block, and the catch block sets status ERROR and
\* last_error to the message of the error of connect or fetch.
C9_FetcherErrorEffect ==
  [][\A w \in Workers :
       (pc[w] \in {"load", "connect", "fetch", "catch"} /\ Moves(w))
         => /\ UNCHANGED store
            /\ mailboxes'[CurMailbox(w)].last_synced_uid
                 = mailboxes[CurMailbox(w)].last_synced_uid
            /\ pc[w] = "catch"
                 => /\ mailboxes'[CurMailbox(w)].status = "ERROR"
                    /\ mailboxes'[CurMailbox(w)].last_error = loc[w].error
                    /\ loc[w].error \in {ConnectError, FetchError}]_vars

\* A cycle after an earlier successful one failed to connect or fetch: the
\* mailbox is in ERROR with the checkpoint and the rows of the earlier cycle.
C9_Witness ==
  \E m \in MailboxIds :
    /\ mailboxes[m].status = "ERROR"
    /\ mailboxes[m].last_error = FetchError
    /\ mailboxes[m].last_synced_uid > 0
    /\ HasEmailRow(m, mailboxes[m].last_synced_uid)
    /\ \A w \in Workers : pc[w] = "idle"

\* C10: a cycle in which a message failed stays in its loop until step 6;
\* when step 6 is taken every message of the batch has been through
\* processMessage (it has an Email row or it failed), and step 6 writes
\* status ACTIVE and last_error null.
C10_MessageErrorDoesNotAbort ==
  /\ [](\A w \in Workers : failed[w] # {} => (InMessage(w) \/ pc[w] = "update"))
  /\ [][\A w \in Workers :
          WritesCheckpoint(w)
            => /\ \A u \in Range(loc[w].batch) :
                    HasEmailRow(CurMailbox(w), u) \/ u \in failed[w]
               /\ mailboxes'[CurMailbox(w)].status = "ACTIVE"
               /\ mailboxes'[CurMailbox(w)].last_error = NoError]_vars

\* The first message of a batch failed, the second one was stored by this
\* cycle, and the cycle is at step 6.
C10_Witness ==
  \E w \in Workers :
    /\ pc[w] = "update"
    /\ Len(loc[w].batch) = 2
    /\ loc[w].batch[1] \in failed[w]
    /\ loc[w].batch[2] \notin failed[w]
    /\ ~HasEmailRow(CurMailbox(w), loc[w].batch[1])
    /\ HasEmailRow(CurMailbox(w), loc[w].batch[2])

\* The step leaves every mailbox other than m, and every row of the store
\* that belongs to one, as it was.
OthersUntouched(m) ==
  \A o \in DOMAIN mailboxes \ {m} :
    /\ mailboxes'[o] = mailboxes[o]
    /\ Len(emails') >= Len(emails) /\ Len(threads') >= Len(threads)
    /\ Len(bounces') >= Len(bounces) /\ Len(events') >= Len(events)
    /\ \A i \in 1..Len(emails') :
         emails'[i].mailbox_id = o => i <= Len(emails) /\ emails'[i] = emails[i]
    /\ \A i \in 1..Len(threads') :
         threads'[i].mailbox_id = o => i <= Len(threads) /\ threads'[i] = threads[i]
    /\ \A i \in 1..Len(bounces') :
         bounces'[i].mailbox_id = o => i <= Len(bounces) /\ bounces'[i] = bounces[i]
    /\ \A i \in 1..Len(events') :
         events'[i].mailbox_id = o => i <= Len(events) /\ events'[i] = events[i]

\* C11: within a tick over several mailboxes, every step of the cycle of one
\* mailbox (its failures included) leaves the other mailboxes and their rows
\* unchanged, and when a cycle ends, however it ends, the tick goes on to
\* load the next mailbox of its list; it stops only when the list is empty.
C11_MailboxFailureIsolated ==
  [][\A w \in Workers :
       (pc[w] # "idle" /\ Moves(w))
         => /\ OthersUntouched(CurMailbox(w))
            /\ todo'[w] \in {todo[w], Tail(todo[w])}
            /\ (todo'[w] # todo[w] /\ todo'[w] # <<>>) => pc'[w] = "load"
            /\ pc'[w] = "idle" => todo'[w] = <<>>]_vars

\* In the first tick the cycle of mailbox 1 ended in ERROR and the cycle of
\* mailbox 2 has stored a message and is at step 6.
C11_Witness ==
  /\ ticks = 1
  /\ mailboxes[1].status = "ERROR"
  /\ pc["scheduler"] = "update"
  /\ todo["scheduler"] = <<2>>
  /\ HasEmailRow(2, 1)

\* C12: processMailbox for a mailbox that is missing or not ACTIVE returns
\* at step 1: no connection is opened, and the mailboxes table and the
\* store are unchanged.
C12_InactiveSyncIsNoOp ==
  [][\A w \in Workers :
       (/\ pc[w] = "load" /\ Moves(w)
        /\ \/ CurMailbox(w) \notin DOMAIN mailboxes
           \/ mailboxes[CurMailbox(w)].status # "ACTIVE")
         => /\ UNCHANGED <<mailboxes, store>>
            /\ pc'[w] \in {"load", "idle"}
            /\ ~loc'[w].connected
            /\ todo'[w] = Tail(todo[w])]_vars

\* The tick selected a mailbox that held a message to sync, the user paused
\* it, and processMailbox is called for it.
C12_Witness ==
  \E w \in Workers :
    /\ pc[w] = "load"
    /\ mailboxes[CurMailbox(w)].status = "DISABLED"
    /\ FetchNewMessages(CurMailbox(w), mailboxes[CurMailbox(w)].last_synced_uid, FALSE) # <<>>

\* C13: the batch fetchNewMessages returns never holds more than BatchSize
\* messages.
C13_BatchAtMostBatchSize ==
  \A w \in Workers : Len(loc[w].batch) <= BatchSize

\* A first fetch from an INBOX with more than BatchSize parseable messages
\* in the window, and one that simpleParser rejects before the last message
\* of the batch, has returned a full batch.
C13_Witness ==
  \E w \in Workers :
    LET m == CurMailbox(w) IN
    /\ pc[w] = "msg"
    /\ loc[w].last_synced_uid = 0
    /\ Len(loc[w].batch) = BatchSize
    /\ sinceUid[m] = 1
    /\ Cardinality({ u \in 1..Len(inbox[m]) : inbox[m][u].parses }) > BatchSize
    /\ \E u \in 1..loc[w].batch[BatchSize] : ~inbox[m][u].parses

\* The INBOX of m holds BatchSize + 1 messages, all of them parseable and
\* inside the SINCE window.
FullBacklog(m) ==
  /\ Len(inbox[m]) = BatchSize + 1
  /\ sinceUid[m] = 1
  /\ \A u \in 1..Len(inbox[m]) : inbox[m][u].parses

\* C14: with BatchSize + 1 qualifying messages and no failure, the first
\* cycle ends with exactly one Email row for each of the first BatchSize
\* messages, none for the last one and the checkpoint at BatchSize; the next
\* cycle fetches the one remaining message and ends with exactly one Email
\* row for every message.
C14_BacklogTakesTwoCycles ==
  [][\A w \in Workers :
       (WritesCheckpoint(w) /\ failed[w] = {} /\ FullBacklog(CurMailbox(w)))
         => LET m == CurMailbox(w) IN
            /\ loc[w].last_synced_uid = 0
                 => /\ \A u \in 1..BatchSize : Cardinality(EmailRows(m, u)) = 1
                    /\ EmailRows(m, BatchSize + 1) = {}
                    /\ mailboxes'[m].last_synced_uid = BatchSize
            /\ (/\ loc[w].last_synced_uid = BatchSize
                /\ \A u \in 1..BatchSize : HasEmailRow(m, u))
                 => /\ loc[w].batch = <<BatchSize + 1>>
                    /\ \A u \in 1..(BatchSize + 1) : Cardinality(EmailRows(m, u)) = 1
                    /\ mailboxes'[m].last_synced_uid = BatchSize + 1]_vars

\* Two cycles without failure have run on a backlog of BatchSize + 1
\* messages: every message has its Email row.
C14_Witness ==
  \E m \in MailboxIds :
    /\ FullBacklog(m)
    /\ ticks = 2
    /\ \A w \in Workers : pc[w] = "idle"
    /\ mailboxes[m].last_synced_uid = BatchSize + 1
    /\ \A u \in 1..(BatchSize + 1) : Cardinality(EmailRows(m, u)) = 1

\* The message worker w is at, as the server holds it.
CurMessage(w) == inbox[CurMailbox(w)][CurUid(w)]

\* C15: the insert of a message whose message_id is stored in the mailbox
\* under another UID adds no Email row and does not end as an error of the
\* message.
C15_MessageIdDuplicateReturns ==
  [][\A w \in Workers :
       (/\ pc[w] = "insert" /\ Moves(w)
        /\ ~HasEmailRow(CurMailbox(w), CurUid(w))
        /\ MessageIdViolation(CurMailbox(w),
                              MessageIdOf(ParsedMessage(CurMessage(w), CurUid(w)))))
         => /\ emails' = emails
            /\ CurUid(w) \notin failed'[w]]_vars

\* Worker w is inside a call of processMessage, past the dedup guard.
InProcessMessage(w) ==
  pc[w] \in {"thread", "insert", "stats", "bounce", "bounceWrite", "bounceEvent"}

\* C16: whenever no processMessage call is under way, every thread's
\* message_count, last_message_at and is_unread are those of its Emails.
C16_ThreadAggregatesConsistent ==
  (\A w \in Workers : ~InProcessMessage(w))
    => \A t \in 1..Len(threads) :
         /\ threads[t].message_count = MessageCount(t)
         /\ ThreadMessages(t) # {}
              => threads[t].last_message_at
                   = Greatest({ emails[i].received_at : i \in ThreadMessages(t) })
         /\ threads[t].is_unread = (\E i \in ThreadMessages(t) : ~emails[i].is_read)

\* C17: a message whose In-Reply-To header is the message_id of an Email of
\* the mailbox is stored with that Email's thread_id.
C17_ReplyJoinsParentThread ==
  [][\A w \in Workers :
       (pc[w] = "insert" /\ pc'[w] = "stats" /\ CurMessage(w).in_reply_to # Undefined)
         => \A i \in 1..Len(emails) :
              (/\ emails[i].mailbox_id = CurMailbox(w)
               /\ emails[i].message_id = CurMessage(w).in_reply_to)
                => emails'[Len(emails')].thread_id = emails[i].thread_id]_vars

\* The date of the latest message of thread t of mailbox m.
LastMessageDate(m, t) ==
  Greatest({ inbox[m][emails[i].uid].date : i \in ThreadMessages(t) })

\* C18: a message without In-Reply-To and with a normalized subject of more
\* than 5 characters joins a thread of the mailbox with that subject iff
\* there is one whose last_message_at is within the last 7 days, and it
\* does not join a thread whose last message is more than 7 days older
\* than the message itself; a message with a short subject joins no thread.
C18_SubjectWindow ==
  [][\A w \in Workers :
       (/\ pc[w] = "thread" /\ pc'[w] = "insert"
        /\ CurMessage(w).in_reply_to = Undefined)
         => LET m == CurMailbox(w)
                msg == CurMessage(w)
                similar == { t \in 1..Len(threads) :
                               /\ threads[t].mailbox_id = m
                               /\ threads[t].normalized_subject = msg.subject }
                joined == loc'[w].threadId <= Len(threads)
            IN IF msg.subject \in LongSubjects
               THEN /\ joined
                      <=> \E t \in similar :
                            threads[t].last_message_at >= now - SevenDays
                    /\ joined => loc'[w].threadId \in similar
                    /\ \A t \in similar :
                         (/\ ThreadMessages(t) # {}
                          /\ msg.date - LastMessageDate(m, t) > SevenDays)
                           => loc'[w].threadId # t
               ELSE ~joined]_vars

\* C19: normalizing a normalized subject gives the same subject.
C19_NormalizeIdempotent ==
  ret # NotCalled => normalizeSubject(ret) = ret

\* C20: normalizeSubject gives the same for "Re: " + s, for s and for
\* "Fwd: " + s.
C20_PrefixDoesNotMatter ==
  ret # NotCalled
    => /\ normalizeSubject(<<"Re:", " ">> \o arg) = ret
       /\ normalizeSubject(<<"Fwd:", " ">> \o arg) = ret

\* Worker w is inside a call of processBounce.
InProcessBounce(w) == pc[w] \in {"bounce", "bounceWrite", "bounceEvent"}

\* The BounceEvents of aggregate b.
EventsOf(b) == { i \in 1..Len(events) : events[i].bounce_id = b }

\* The least element of a non-empty set of integers.
Least(S) == CHOOSE x \in S : \A y \in S : x <= y

\* C21: whenever no processBounce call is under way, every aggregate's
\* failure_count is the number of its BounceEvents, its first_failed_at the
\* earliest and its last_failed_at the latest occurred_at among them.
C21_BounceAggregateMatchesEvents ==
  (\A w \in Workers : ~InProcessBounce(w))
    => \A b \in 1..Len(bounces) :
         /\ bounces[b].failure_count = Cardinality(EventsOf(b))
         /\ EventsOf(b) # {}
              => /\ bounces[b].first_failed_at
                      = Least({ events[i].occurred_at : i \in EventsOf(b) })
                 /\ bounces[b].last_failed_at
                      = Greatest({ events[i].occurred_at : i \in EventsOf(b) })

\* C22: processBounce for a recipient that has an aggregate adds exactly 1
\* to its failure_count and leaves the other aggregates alone, the event it
\* appends is one row for that aggregate and the UID of the message, and
\* once two bounce messages for one recipient have their events the
\* aggregate has failure_count 2 and 2 BounceEvents.
C22_SecondBounceIncrements ==
  /\ [][\A w \in Workers :
          /\ (pc[w] = "bounceWrite" /\ pc'[w] = "bounceEvent" /\ loc[w].existing # 0)
               => /\ Len(bounces') = Len(bounces)
                  /\ \A b \in 1..Len(bounces) :
                       bounces'[b].failure_count
                         = bounces[b].failure_count
                             + (IF b = loc[w].existing THEN 1 ELSE 0)
                  /\ loc'[w].bounceId = loc[w].existing
          /\ (pc[w] = "bounceEvent" /\ events' # events)
               => /\ Len(events') = Len(events) + 1
                  /\ SubSeq(events', 1, Len(events)) = events
                  /\ events'[Len(events')].bounce_id = loc[w].bounceId
                  /\ events'[Len(events')].message_uid = CurUid(w)]_vars
  /\ [](\A m \in MailboxIds :
          (/\ \A w \in Workers : ~InProcessBounce(w)
           /\ Len(inbox[m]) = 2
           /\ inbox[m][1].recipient = inbox[m][2].recipient
           /\ EventRows(m, 1) # {} /\ EventRows(m, 2) # {})
            => \E b \in BounceRows(m, inbox[m][1].recipient) :
                 /\ bounces[b].failure_count = 2
                 /\ Cardinality(EventsOf(b)) = 2)

\* A first bounce was processed in one cycle and, days later, a second one
\* with a new UID for the same recipient in another cycle.
C22_Witness ==
  /\ \A w \in Workers : pc[w] = "idle"
  /\ ticks = 2
  /\ Len(bounces) = 1
  /\ bounces[1].failure_count = 2
  /\ bounces[1].last_failed_at > bounces[1].first_failed_at
  /\ Cardinality(EventsOf(1)) = 2
  /\ EventRows(1, 1) # {} /\ EventRows(1, 2) # {}

\* C23: no two BounceAggregate rows have the same mailbox and email.
C23_OneAggregatePerRecipient ==
  \A b1, b2 \in 1..Len(bounces) :
    (/\ bounces[b1].mailbox_id = bounces[b2].mailbox_id
     /\ bounces[b1].email = bounces[b2].email)
      => b1 = b2

\* C26: a cycle whose connect or fetch ended in an error (a timeout is one)
\* ends without a new checkpoint, with the mailbox still ACTIVE and with
\* last_error set to the error.
C26_TimeoutLeavesActive ==
  [][\A w \in Workers :
       (pc[w] = "catch" /\ Moves(w))
         => /\ mailboxes'[CurMailbox(w)].last_synced_uid
                 = mailboxes[CurMailbox(w)].last_synced_uid
            /\ mailboxes'[CurMailbox(w)].last_error = loc[w].error
            /\ mailboxes'[CurMailbox(w)].status = "ACTIVE"
            /\ pc'[w] \in {"idle", "load"}]_vars

\* C27: no step of a sync cycle changes the status of a mailbox that is
\* DISABLED.
C27_DisabledIsTerminal ==
  [][\A w \in Workers :
       (pc[w] # "idle" /\ Moves(w))
         => \A m \in DOMAIN mailboxes :
              mailboxes[m].status = "DISABLED"
                => mailboxes'[m].status = "DISABLED"]_vars

\* C28: a cycle whose fetch returned no message ends with last_synced_at of
\* the mailbox set to the time of the cycle and last_synced_uid unchanged.
C28_EmptyFetchUpdatesSyncTime ==
  [][\A w \in Workers :
       (pc[w] = "fetch" /\ Moves(w) /\ pc'[w] \notin {"msg", "catch"})
         => /\ mailboxes'[CurMailbox(w)].last_synced_at = now
            /\ mailboxes'[CurMailbox(w)].last_synced_uid
                 = mailboxes[CurMailbox(w)].last_synced_uid]_vars

\* C29: the thread_id of every Email is the id of a Thread of the Email's
\* mailbox.
C29_ThreadOfSameMailbox ==
  \A i \in 1..Len(emails) :
    /\ emails[i].thread_id \in 1..Len(threads)
    /\ threads[emails[i].thread_id].mailbox_id = emails[i].mailbox_id

\* Two mailboxes hold an Email each, with equal message_ids and equal
\* normalized subjects of more than 5 characters, the second one resolved
\* when the thread of the first existed.
C29_Witness ==
  \E i, j \in 1..Len(emails) :
    /\ i < j
    /\ emails[i].mailbox_id # emails[j].mailbox_id
    /\ emails[i].message_id = emails[j].message_id
    /\ emails[i].thread_id < emails[j].thread_id
    /\ threads[emails[i].thread_id].normalized_subject \in LongSubjects
    /\ threads[emails[i].thread_id].normalized_subject
         = threads[emails[j].thread_id].normalized_subject

\* C30: when the Email of a message has been inserted with the thread
\* findOrCreateThread resolved, a second call of findOrCreateThread for the
\* message finds that thread and no other, and so creates none.
C30_ResolveIsIdempotent ==
  \A w \in Workers :
    pc[w] = "stats"
      => FoundThreads(CurMailbox(w),
                      ThreadEmail(ParsedMessage(CurMessage(w), CurUid(w))))
           = {loc[w].threadId}

\* The rules of the classifier as the claim states them, on the headers the
\* message carries.
Carries(email, name) == name \in email.headers.names

RuleBounce(email) ==
  email.from = "mailer-daemon@example.com" \/ email.subject = "undelivered mail"

RuleTransactional(email) ==
  /\ \/ email.from \in {"noreply@store.example", "notifications@app.example"}
     \/ email.subject = "password reset"
  /\ ~Carries(email, "list-unsubscribe")

RuleNotification(email) ==
  email.from = "notifications@app.example" \/ email.subject = "weekly digest"

RuleNewsletter(email) ==
  \/ Carries(email, "list-unsubscribe") /\ Carries(email, "list-post")
  \/ email.subject = "newsletter"

RuleMarketing(email) ==
  \/ Carries(email, "list-unsubscribe")
  \/ email.subject = "50% off - limited time" /\ email.links > 5

RuleHuman(email) ==
  /\ email.from \notin {"noreply@store.example", "notifications@app.example"}
  /\ Carries(email, "reply-to") \/ email.recipients = 1
  /\ ~Carries(email, "list-unsubscribe") /\ ~Carries(email, "list-id")

FirstRule(email) ==
  IF RuleBounce(email) THEN <<"BOUNCE", 100>>
  ELSE IF RuleTransactional(email) THEN <<"TRANSACTIONAL", 90>>
  ELSE IF RuleNotification(email) THEN <<"NOTIFICATION", 85>>
  ELSE IF RuleNewsletter(email) THEN <<"NEWSLETTER", 75>>
  ELSE IF RuleMarketing(email) THEN <<"MARKETING", 80>>
  ELSE IF RuleHuman(email) THEN <<"HUMAN", 70>>
  ELSE <<"UNKNOWN", 0>>

\* C25: classify returns the category and confidence of the first rule, in
\* the order BOUNCE, TRANSACTIONAL, NOTIFICATION, NEWSLETTER, MARKETING,
\* HUMAN, UNKNOWN, that the message matches; a message from a transactional
\* sender with a List-Unsubscribe header, no List-Post header and no bounce
\* or notification pattern is MARKETING.
C25_FirstMatchingRule ==
  ret # NotCalled
    => /\ ret = FirstRule(arg)
       /\ (/\ arg.from = "noreply@store.example"
           /\ arg.subject = "50% off - limited time"
           /\ Carries(arg, "list-unsubscribe") /\ ~Carries(arg, "list-post"))
            => ret[1] = "MARKETING"

\* The address validity predicate V of the bounce parser on the candidates:
\* the local part does not begin with 8 or more hex characters, the address
\* does not end in a file extension and does not begin with a system prefix.
V(addr) ==
  /\ addr \in { ToLowerAddress(c) : c \in Candidates }
  /\ addr # "0123456789abcdef@mail.example.com"
  /\ addr # "logo@2x.png"
  /\ addr \notin {"postmaster@example.com", "noreply@example.com"}

\* C24: the email of every BounceAggregate passes V.
C24_AggregateEmailValid ==
  \A b \in 1..Len(bounces) : V(bounces[b].email)

\* An aggregate was written for a bounce in which the patterns matched a
\* system address before the recipient.
C24_Witness ==
  \E m \in MailboxIds :
    /\ Len(inbox[m]) = 1
    /\ Len(inbox[m][1].matches) = 2
    /\ ~V(ToLowerAddress(inbox[m][1].matches[1]))
    /\ BounceRows(m, ToLowerAddress(inbox[m][1].matches[2])) # {}

\* C31: a message whose In-Reply-To matches no stored email of the mailbox
\* and one of whose References matches one is resolved to the thread of a
\* referenced email, and a resolve creates a new Thread only when the
\* In-Reply-To lookup, the References lookup and the subject lookup all find
\* none.
C31_ReferencesFallThrough ==
  [][\A w \in Workers :
       (pc[w] = "thread" /\ pc'[w] = "insert")
         => LET m == CurMailbox(w)
                msg == CurMessage(w)
                parents == ParentThreads(m, msg.in_reply_to)
                referenced == ReferencedThreads(m, msg.references)
                similar == { t \in SimilarThreads(m, msg.subject) : Recent(t) }
            IN /\ (parents = {} /\ referenced # {})
                    => loc'[w].threadId \in referenced
               /\ loc'[w].threadId > Len(threads)
                    => parents = {} /\ referenced = {} /\ similar = {}]_vars

TypeByCode(code) ==
  IF code \in 550..554 THEN "HARD"
  ELSE IF code \in 450..453 THEN "SOFT"
  ELSE IF code \in 500..599 THEN "HARD"
  ELSE "SOFT"

TypeByBody(body) ==
  IF \E p \in {"user not found", "mailbox not found", "account disabled"} : p \in body
  THEN "HARD"
  ELSE IF \E p \in {"mailbox full", "quota exceeded", "temporarily"} : p \in body
  THEN "SOFT"
  ELSE "UNKNOWN"

\* C33: classifyBounceType returns HARD, SOFT or UNKNOWN for every code and
\* body; for a 4xx or 5xx code it returns what the table gives for the code,
\* and without a code what the table gives for the body.
C33_BounceTypeTable ==
  ret # NotCalled
    => /\ ret[1] \in {"HARD", "SOFT", "UNKNOWN"}
       /\ arg.errorCode \in 400..599 => ret[1] = TypeByCode(arg.errorCode)
       /\ arg.errorCode = NoErrorCode => ret[1] = TypeByBody(arg.body)

\* A body without a code that speaks of a full mailbox and of a user not
\* found was classified.
C33_Witness ==
  /\ ret # NotCalled
  /\ arg.errorCode = NoErrorCode
  /\ {"mailbox full", "user not found"} \subseteq arg.body
  /\ ret = <<"HARD">>

\* The candidates of the bounce parser as its contract lists them: the
\* addresses the six patterns find in the text, by priority; every
\* occurrence of an address is one of the bare pattern.
Priority(form) == CHOOSE p \in 1..Len(Forms) : Forms[p] = form

RECURSIVE CandidatesOf(_, _)
CandidatesOf(p, body) ==
  IF p > Len(Forms) THEN <<>>
  ELSE [i \in 1..Len(SelectSeq(body, LAMBDA o : Priority(o.form) = p \/ p = Len(Forms))) |->
          ToLowerAddress(SelectSeq(body, LAMBDA o : Priority(o.form) = p \/ p = Len(Forms))[i].addr)]
       \o CandidatesOf(p + 1, body)

FirstValid(body) ==
  LET valid == SelectSeq(CandidatesOf(1, body), V)
  IN IF valid = <<>> THEN NoRecipient ELSE valid[1]

\* C34: processMessage on a stored bounce goes on to processBounce with the
\* first candidate that passes V, and when no candidate passes it returns
\* with the Email row stored and the bounce tables as they were.
C34_FirstValidCandidateOrDrop ==
  [][\A w \in Workers :
       (pc[w] = "stats" /\ Moves(w) /\ CurMessage(w).category = "BOUNCE")
         => /\ HasEmailRow(CurMailbox(w), CurUid(w))
            /\ bounces' = bounces /\ events' = events
            /\ IF FirstValid(CurMessage(w).body) = NoRecipient
               THEN pc'[w] \in {"msg", "update"}
               ELSE /\ pc'[w] = "bounce"
                    /\ CurMessage(w).recipient = FirstValid(CurMessage(w).body)]_vars

\* C35: every cycle of a worker comes to its end, and when processMailbox
\* returns, the ImapClient it created, if any, has been through disconnect:
\* no worker between two calls holds an ImapFlow with listeners.
C35_CycleEndsDisconnected ==
  /\ [](\A w \in Workers : pc[w] \in {"idle", "load"} => loc[w].client # ClientOpen)
  /\ [][\A w \in Workers :
          (Moves(w) /\ loc[w].client = ClientOpen /\ pc'[w] \in {"idle", "load"})
            => loc'[w].client = ClientClosed]_vars
  /\ \A w \in Workers : (pc[w] # "idle") ~> (pc[w] = "idle")

\* A cycle whose connect failed has returned: the mailbox is in ERROR, and
\* the client that never connected has been disconnected.
C35_Witness ==
  \E w \in Workers :
    /\ pc[w] = "idle"
    /\ loc[w].client = ClientClosed
    /\ mailboxes[1].status = "ERROR"
    /\ mailboxes[1].last_error = ConnectError
    /\ ticks = 1

\* The bounce messages the server holds for mailbox m.
BounceMessages(m) ==
  { u \in 1..Len(inbox[m]) : inbox[m][u].category = "BOUNCE" }

\* C36: with the legacy processor run after the enhanced one, the failure
\* counts of a mailbox sum to at most one per bounce message, and the
\* mailbox has at most one BounceEvent per bounce message.
C36_BothModeCountsOnce ==
  \A m \in MailboxIds :
    /\ TotalFailures(m, Len(bounces)) <= Cardinality(BounceMessages(m))
    /\ Cardinality({ i \in 1..Len(events) : events[i].mailbox_id = m })
         <= Cardinality(BounceMessages(m))

\* C39: the checkpoint the legacy processor writes does not pass a message
\* of its batch that the enhanced processMessage was never called with.
C39_LegacyLeavesUnseenMessages ==
  [][\A w \in Workers :
       (pc[w] = "legacyUpdate" /\ Moves(w))
         => \A u \in Range(loc[w].batch) :
              u <= mailboxes'[CurMailbox(w)].last_synced_uid
                => u \in attempted[CurMailbox(w)]]_vars

\* C37: when cycles of one mailbox overlap, the checkpoint a cycle writes at
\* step 6 is not below the checkpoint the mailbox has at that moment: no
\* cycle lowers what another cycle wrote.
C37_OverlapKeepsHigherCheckpoint ==
  [][\A w \in Workers :
       WritesCheckpoint(w)
         => mailboxes'[CurMailbox(w)].last_synced_uid
              >= mailboxes[CurMailbox(w)].last_synced_uid]_vars

\* C38: whenever no processMessage call is under way, every Thread is the
\* thread of at least one Email.
C38_NoThreadWithoutEmail ==
  (\A w \in Workers : ~InProcessMessage(w))
    => \A t \in 1..Len(threads) : ThreadMessages(t) # {}

\* A route replies 200 after its last store call.
RouteDone == api.route # "none" /\ api'.route = "none" /\ api'.status = 200

\* The request was for an Email, or for a thread that has Emails.
OnMembers ==
  api.route = "PUT /threads/:id/read" => ThreadMessages(api.thread_id) # {}

\* C40: when PUT /emails/:id/read, PUT /threads/:id/read or DELETE
\* /emails/:id replies 200 to a request for an Email or for a thread with
\* Emails, and no processMessage call is under way, the thread of the
\* request is unread exactly when one of its Emails is unread, and its
\* message_count is the number of its Emails.
C40_RoutesKeepThreadAggregates ==
  [][(/\ RouteDone /\ api.thread_id # 0 /\ OnMembers
      /\ \A w \in Workers : ~InProcessMessage(w))
       => LET t == api.thread_id
              members == { i \in 1..Len(emails') : emails'[i].thread_id = t }
          IN /\ threads'[t].is_unread = (\E i \in members : ~emails'[i].is_read)
             /\ threads'[t].message_count = Cardinality(members)]_vars

====
